---- MODULE Spec2Model ----
(***************************************************************************)
(* Model of the clawless skill-governance core:                            *)
(*   - the admin service's proposal pipeline (src/src/admin/service.py),   *)
(*     with the implementation generator, the static analyzer and the CLI  *)
(*     approval channel it calls;                                          *)
(*   - the user agent's event kernel and skill registry                    *)
(*     (src/src/user/kernel.py, src/src/user/skills/base.py).              *)
(*                                                                         *)
(* Strings that the code takes apart are sequences of tokens: a slug       *)
(* "my-clock" is <<"my", "-", "clock">>, a dotted module "os.path" is      *)
(* <<"os", "path">>, a message is the sequence of its parts.               *)
(***************************************************************************)
EXTENDS Integers, Sequences, FiniteSets, TLC

\* ------------------------------------------------------------------ bounds

\* Number of out-of-band admin commands (approve / remove) in one run.
MaxCommands == 1
\* Number of gates configured "human" at the same time.
MaxHumanGates == 1
\* Longest sequence of lines typed at one approval prompt before end of input.
MaxInputs == 2
\* Number of skills registered before boot.
MaxSkills == 3
\* Number of entries in a skills manifest that is loaded.
MaxEntries == 2
\* Number of segments of a path passed as a write target.
MaxDepth == 3
\* Number of characters of a short profile identifier.
MaxIdLen == 2
\* Number of lines of a source given to the safety scan.
MaxLines == 2
\* Number of entries the background thread stores.
MaxStores == 3
\* Number of retrievals of the main path.
MaxRetrievals == 3

\* Number of tools a skill exposes.
MaxTools == 2

\* ------------------------------------------------------- sequence helpers

RECURSIVE Concat(_)
\* "; ".join / ", ".join of a sequence of messages (separators left out).
Concat(ss) == IF ss = <<>> THEN <<>> ELSE Head(ss) \o Concat(Tail(ss))

Range(s) == {s[i] : i \in DOMAIN s}

\* ------------------------------------------------------------- the data

\* The record files of the proposals directory, by their place in the sorted
\* listing: proposed_<slug>_<timestamp>.yaml.
Proposals == {1, 2}

\* service.py:33
_STATUSES == <<"new", "discovered", "implementation", "agent-review",
               "human-review", "accepted", "rejected">>

\* The five target statuses of _process_proposal's transitions, in order.
Targets == <<"discovered", "implementation", "agent-review", "human-review", "accepted">>

\* The statuses from which _process_proposal attempts a transition.
PipelineStatuses == {"new", "discovered", "implementation", "agent-review", "human-review"}

\* A faulty set of core modules, which protects none.
_CORE_MODULES_None == {}

\* service.py:171
_CORE_MODULES == {<<"cli">>, <<"reasoning">>, <<"memory">>, <<"proposer">>}

\* The proposal's id (a UUID), as written by the proposer skill, and the slugs
\* proposals are written with: one names a core module.
IdOf(p) == <<"uuid", ToString(p)>>
Slugs == {<<"memory">>, <<"my", "-", "clock">>}

\* service.py:509-511: slug.replace("-", "_")
_slug_to_module_name(slug) == [i \in DOMAIN slug |-> IF slug[i] = "-" THEN "_" ELSE slug[i]]

\* service.py:452
ModulePath(module_name) == <<"clawless", "user", "skills">> \o module_name

Modules == {_slug_to_module_name(s) : s \in Slugs}

\* ------------------------------------------------ generated source text
\* A source text is a sequence of lines; a line is one statement:
\*   kind "import"  name = the dotted module          (import os.path)
\*   kind "from"    name = the dotted module          (from os import x)
\*   kind "call"    name = <<the called name>>        (eval(...), x.eval(...))
\*   kind "class"   name = <<the class name>>, base = the base class
\*   kind "str"     name = the pieces of a string literal
\*   kind "garbage" a line that does not parse

Line(kind, name, base) == [kind |-> kind, name |-> name, base |-> base]

GoodCode == << Line("from", <<"clawless", "user", "skills", "base">>, ""),
               Line("class", <<"ClockSkill">>, "BaseSkill") >>
ImportCode == << Line("import", <<"subprocess">>, ""),
                 Line("class", <<"ClockSkill">>, "BaseSkill") >>
NoClassCode == << Line("from", <<"clawless", "user", "types">>, ""),
                  Line("class", <<"Helper">>, "object") >>
BrokenCode == << Line("import", <<"subprocess">>, ""),
                 Line("garbage", <<>>, "") >>

\* analyzer.py:18-24 (the members the model's sources can name)
FORBIDDEN_IMPORTS == {"os", "sys", "subprocess", "shutil", "socket", "http",
  "urllib", "requests", "httpx", "importlib", "ctypes", "multiprocessing",
  "threading", "signal", "pathlib", "tempfile", "glob", "fnmatch", "io",
  "pickle", "shelve", "marshal", "code", "codeop", "compileall", "py_compile"}

\* analyzer.py:27-31
FORBIDDEN_BUILTINS == {"eval", "exec", "compile", "__import__", "open",
  "globals", "locals", "vars", "dir", "getattr", "setattr", "delattr",
  "breakpoint", "exit", "quit"}

\* analyzer.py:79-80: the substrings looked for in string literals.
SuspiciousPatterns == {"__import__", "eval(", "exec("}

\* analyzer.py:152-158: the name of a call's function, the last part of a
\* dotted one, and "" when the function is no name and no attribute.
_get_call_name(node) == IF node.name = <<>> THEN "" ELSE node.name[Len(node.name)]

\* A faulty scan of a node, which looks up the whole dotted name of an
\* imported module.
NodeIssues_WholeName(code, i) ==
  LET n == code[i] IN
  IF n.kind = "import" /\ Len(n.name) = 1 /\ n.name[1] \in FORBIDDEN_IMPORTS
    THEN << <<"Forbidden import: ">> \o n.name \o <<"line", ToString(i)>> >>
  ELSE IF n.kind = "from" /\ n.name # <<>> /\ n.name[1] \in FORBIDDEN_IMPORTS
    THEN << <<"Forbidden import from: ">> \o n.name \o <<"line", ToString(i)>> >>
  ELSE IF n.kind = "call" /\ _get_call_name(n) \in FORBIDDEN_BUILTINS
    THEN << <<"Forbidden builtin call: ", _get_call_name(n), "line", ToString(i)>> >>
  ELSE IF n.kind = "str" /\ Range(n.name) \cap SuspiciousPatterns # {}
    THEN << <<"Suspicious string containing code execution pattern", "line", ToString(i)>> >>
  ELSE <<>>

\* analyzer.py:59-84, the issue (or none) of the node on line i
NodeIssues(code, i) ==
  LET n == code[i] IN
  IF n.kind = "import" /\ n.name[1] \in FORBIDDEN_IMPORTS
    THEN << <<"Forbidden import: ">> \o n.name \o <<"line", ToString(i)>> >>
  ELSE IF n.kind = "from" /\ n.name # <<>> /\ n.name[1] \in FORBIDDEN_IMPORTS
    THEN << <<"Forbidden import from: ">> \o n.name \o <<"line", ToString(i)>> >>
  ELSE IF n.kind = "call" /\ _get_call_name(n) \in FORBIDDEN_BUILTINS
    THEN << <<"Forbidden builtin call: ", _get_call_name(n), "line", ToString(i)>> >>
  ELSE IF n.kind = "str" /\ Range(n.name) \cap SuspiciousPatterns # {}
    THEN << <<"Suspicious string containing code execution pattern", "line", ToString(i)>> >>
  ELSE <<>>

RECURSIVE WalkIssues(_, _)
WalkIssues(code, i) ==
  IF i > Len(code) THEN <<>> ELSE NodeIssues(code, i) \o WalkIssues(code, i + 1)

\* analyzer.py:47-86
analyze_code_safety(code) ==
  IF \E i \in DOMAIN code : code[i].kind = "garbage"
    THEN << <<"Syntax error in generated code">> >>
    ELSE WalkIssues(code, 1)

\* A faulty analyze_composition, which gives the warning for the sensitive
\* pair only next to an overlap.
analyze_composition_PairNeedsOverlap(proposal_capabilities, active_skill_capabilities) ==
  LET proposed_set == Range(proposal_capabilities)
      Overlaps(a) == proposed_set \cap Range(a.caps) # {}
      Warn(a) == <<"Proposed skill shares capabilities with", a.name,
                   proposed_set \cap Range(a.caps)>>
      hits == SelectSeq(active_skill_capabilities, Overlaps)
  IN [i \in DOMAIN hits |-> Warn(hits[i])]
     \o (IF {"user:input", "memory:write"} \subseteq proposed_set /\ hits # <<>>
           THEN << <<"Proposed skill has both user:input and memory:write">> >>
           ELSE <<>>)

\* analyzer.py:89-116, with the active skills as a sequence of [name, caps]
\* in the order of the dict, and the sorted overlap of a warning as a set
analyze_composition(proposal_capabilities, active_skill_capabilities) ==
  LET proposed_set == Range(proposal_capabilities)
      Overlaps(a) == proposed_set \cap Range(a.caps) # {}
      Warn(a) == <<"Proposed skill shares capabilities with", a.name,
                   proposed_set \cap Range(a.caps)>>
      hits == SelectSeq(active_skill_capabilities, Overlaps)
  IN [i \in DOMAIN hits |-> Warn(hits[i])]
     \o (IF {"user:input", "memory:write"} \subseteq proposed_set
           THEN << <<"Proposed skill has both user:input and memory:write">> >>
           ELSE <<>>)

\* A file of the implementations directory: present or not, and its text.
NoFile == [exists |-> FALSE, content |-> <<>>]
File(content) == [exists |-> TRUE, content |-> content]

\* A faulty analyze_file, for which a composition warning is an issue.
analyze_file_WarningsBlock(file, proposal, active_skills) ==
  IF ~file.exists
    THEN [clean |-> FALSE,
          issues |-> << <<"Cannot read implementation file">> >>,
          composition_warnings |-> <<>>]
    ELSE LET safety_issues == analyze_code_safety(file.content)
             comp_warnings ==
               analyze_composition(proposal["proposal"].capabilities, active_skills)
         IN [clean |-> safety_issues \o comp_warnings = <<>>,
             issues |-> safety_issues \o comp_warnings,
             composition_warnings |-> comp_warnings]

\* analyzer.py:119-149
analyze_file(file, proposal, active_skills) ==
  IF ~file.exists
    THEN [clean |-> FALSE,
          issues |-> << <<"Cannot read implementation file">> >>,
          composition_warnings |-> <<>>]
    ELSE LET safety_issues == analyze_code_safety(file.content) IN
         [clean |-> safety_issues = <<>>,
          issues |-> safety_issues,
          composition_warnings |->
            analyze_composition(proposal["proposal"].capabilities, active_skills)]

\* A faulty has_critical_issues, which lets every analysis pass.
has_critical_issues_Never(result) == FALSE

\* analyzer.py:43-45
has_critical_issues(result) == ~result.clean

\* ------------------------------------------------------ errors, dicts

\* A raised exception: type(e).__name__ and str(e).
Err(kind, msg) == [kind |-> kind, msg |-> msg]
NoError == Err("none", <<>>)

\* d[k] = v on a dict (a function from keys).
Put(d, k, v) == [x \in DOMAIN d \cup {k} |-> IF x = k THEN v ELSE d[x]]

\* The keys that _save_proposal drops: k.startswith("_").
StartsWithUnderscore(k) == k \in {"_context"}

\* proposal.get("_context", {})
NoAnalysis == [present |-> FALSE, clean |-> TRUE, issues |-> <<>>, composition_warnings |-> <<>>]
EmptyContext == [code_path |-> <<>>, analysis |-> NoAnalysis]
ContextOf(proposal) ==
  IF "_context" \in DOMAIN proposal THEN proposal["_context"] ELSE EmptyContext

\* notifier.py:71-82 -- the lines typed at the prompt, as typed.
InputTokens == {"a", "Yes", "r", "maybe", "^C"}

\* str.strip().lower() of a typed line
StripLower(line) == IF line = "Yes" THEN "yes" ELSE line

RECURSIVE request_approval(_)
\* notifier.py:36-82: read lines until one decides; end of input (EOFError)
\* and an interrupt (KeyboardInterrupt) reject.
request_approval(typed) ==
  IF typed = <<>> THEN FALSE
  ELSE IF Head(typed) = "^C" THEN FALSE
  ELSE LET choice == StripLower(Head(typed)) IN
       IF choice \in {"a", "approve", "y", "yes"} THEN TRUE
       ELSE IF choice \in {"r", "reject", "n", "no"} THEN FALSE
       ELSE request_approval(Tail(typed))

RECURSIVE SeqsUpTo(_, _)
SeqsUpTo(S, n) ==
  IF n = 0 THEN {<<>>}
  ELSE LET shorter == SeqsUpTo(S, n - 1) IN
       shorter \cup {Append(t, x) : t \in shorter, x \in S}

TypedInputs == SeqsUpTo(InputTokens, MaxInputs)

\* --------------------------------------------- the generation collaborator

\* What llm_chat returns: text that may open with a prefix, may be wrapped in
\* markdown fences, and holds source lines; or the call raises.
Response(prefix, fenced, body) ==
  [raises |-> FALSE, prefix |-> prefix, fenced |-> fenced, body |-> body]
LLMRaises == [raises |-> TRUE, prefix |-> "", fenced |-> FALSE, body |-> <<>>]
\* self._llm_chat is None
NoLLM == [raises |-> FALSE, prefix |-> "none", fenced |-> FALSE, body |-> <<>>]

LLMResponses ==
  { Response("", FALSE, GoodCode), Response("", TRUE, GoodCode),
    Response("", FALSE, ImportCode), Response("", FALSE, NoClassCode),
    Response("", FALSE, BrokenCode),
    Response("Infeasible:", FALSE, <<" ", "needs a clock device", " ">>),
    LLMRaises, NoLLM }

\* implementer.py:21
_INFEASIBLE_PREFIX == "INFEASIBLE:"

\* str.upper() of the opening of the text
Upper(prefix) == IF prefix = "Infeasible:" THEN "INFEASIBLE:" ELSE prefix

\* implementer.py:179-186: strips the fences, keeps the lines
_clean_code(raw) == raw.body

\* str.strip() of the text after the prefix: the blanks at its ends go
Strip(text) == SelectSeq(text, LAMBDA t : t # " ")

\* A faulty generate_implementation, which drops the reason of the signal.
generate_implementation_NoReason(proposal, llm_chat) ==
  IF llm_chat.raises
    THEN [err |-> Err("TimeoutError", <<"LLM request failed">>), code |-> <<>>]
  ELSE IF Upper(llm_chat.prefix) = _INFEASIBLE_PREFIX
    THEN [err |-> Err("InfeasibleProposalError", <<>>), code |-> <<>>]
  ELSE [err |-> NoError, code |-> _clean_code(llm_chat)]

\* implementer.py:102-159: [err, code]
generate_implementation(proposal, llm_chat) ==
  IF llm_chat.raises
    THEN [err |-> Err("TimeoutError", <<"LLM request failed">>), code |-> <<>>]
  ELSE IF Upper(llm_chat.prefix) = _INFEASIBLE_PREFIX
    THEN [err |-> Err("InfeasibleProposalError", Strip(llm_chat.body)), code |-> <<>>]
  ELSE [err |-> NoError, code |-> _clean_code(llm_chat)]

\* ------------------------------------------------------- the disk state

VARIABLES
  records,    \* proposals directory: path -> the persisted proposal dict
  impl,       \* proposals/_implementations: slug -> file
  manifest,   \* the skills manifest: [isFile, skills]
  dirs,       \* the skills package: module name -> [exists, files]
  scanning,   \* a scan pass (_scan_and_process) is under way
  gates,      \* the gate configuration (admin.yaml): target status -> policy
  queue,      \* the sorted paths the pass has still to visit
  cur,        \* the record being processed: [path, proposal] (path 0: none)
  cmds,       \* admin commands executed so far
  ev          \* what the latest step did (calls made, error raised)

avars == <<records, impl, manifest, dirs, scanning, gates, queue, cur, cmds, ev>>

\* The user agent: the skill registry, whether the kernel context is built,
\* and what the last kernel operation did.
VARIABLES registry, ctx, kev

kvars == <<registry, ctx, kev>>

\* The application of a library function: its name, its argument, what of
\* the environment it reads, and what it returns or raises.
VARIABLES call

\* A profile's MemoryManager, shared by the main path, which retrieves, and
\* the background thread of a turn, which stores: the entries file, the
\* cache self._entries, where each thread stands, and what the retrieval
\* under way will return.
VARIABLES mem
uvars == <<call, mem>>

vars == <<avars, kvars, uvars>>

\* The gate configurations: any policy per target status, with at most
\* MaxHumanGates of them human.
GateConfigs ==
  {g \in [Range(Targets) -> {"auto", "human"}] :
     Cardinality({t \in Range(Targets) : g[t] = "human"}) <= MaxHumanGates}
AllAuto == [t \in Range(Targets) |-> "auto"]

Entry(module_path, class_name) == [module |-> module_path, class |-> class_name]
NoDir == [exists |-> FALSE, files |-> {}]

\* A faulty _append_history, which keeps the newest entry only.
_append_history_KeepsNewest(proposal, status, actor) ==
  Put(proposal, "history", <<[status |-> status, actor |-> actor]>>)

\* service.py:568-575 (the timestamp is left out)
_append_history(proposal, status, actor) ==
  LET history == IF "history" \in DOMAIN proposal THEN proposal["history"] ELSE <<>>
  IN Put(proposal, "history", Append(history, [status |-> status, actor |-> actor]))

\* A faulty _save_proposal, which writes the dict as it is.
_save_proposal_WithContext(proposal) == proposal

\* service.py:593-599: the dict that is written to the record's file
_save_proposal(proposal) ==
  [k \in {x \in DOMAIN proposal : ~StartsWithUnderscore(x)} |-> proposal[k]]

\* A file that does not hold a record: cut short by a write that failed, or
\* not YAML. yaml.safe_load gives None or raises (service.py:581-584).
Unreadable == <<>>

\* A faulty _load_proposal, which hands rejected records on to processing.
_load_proposal_RejectedRetried(data) ==
  IF data = Unreadable \/ data["status"] \in {"accepted"}
    THEN [none |-> TRUE, data |-> data]
    ELSE [none |-> FALSE, data |-> data]

\* service.py:577-591: [none, data]; none is the None returned for a record
\* to skip
_load_proposal(data) ==
  IF data = Unreadable \/ data["status"] \in {"accepted", "rejected"}
    THEN [none |-> TRUE, data |-> data]
    ELSE [none |-> FALSE, data |-> data]

\* service.py:382-388
_validate_schema(proposal) ==
  LET spec == proposal["proposal"]
      required == <<"id", "slug", "name", "description", "capabilities">>
      Absent(f) == spec[f] = <<>>
      missing == SelectSeq(required, Absent)
  IN IF missing # <<>>
       THEN Err("ValueError", <<"Missing required fields: ">> \o missing)
       ELSE NoError

\* service.py:496-506: [err, class_name]
IsSkillClass(line) == line.kind = "class" /\ line.base = "BaseSkill"
_extract_class_name(file) ==
  IF ~file.exists
    THEN [err |-> Err("FileNotFoundError", <<"No such file">>), class_name |-> <<>>]
  ELSE LET matches == SelectSeq(file.content, IsSkillClass) IN
       IF matches = <<>>
         THEN [err |-> Err("RuntimeError", <<"No BaseSkill subclass found">>),
               class_name |-> <<>>]
         ELSE [err |-> NoError, class_name |-> matches[1].name]

HasModule(m, module_path) == \E i \in DOMAIN m.skills : m.skills[i].module = module_path

\* A faulty _update_manifest, which appends without looking for the module.
_update_manifest_NoDuplicateCheck(m, module_path, class_name) ==
  IF ~m.isFile
    THEN [err |-> Err("RuntimeError", <<"Manifest file not found">>), manifest |-> m]
  ELSE [err |-> NoError,
        manifest |-> [m EXCEPT !.skills = Append(@, Entry(module_path, class_name))]]

\* service.py:513-534: [err, manifest]
_update_manifest(m, module_path, class_name) ==
  IF ~m.isFile
    THEN [err |-> Err("RuntimeError", <<"Manifest file not found">>), manifest |-> m]
  ELSE IF HasModule(m, module_path)
    THEN [err |-> Err("RuntimeError", <<"already exists in the manifest">> \o module_path),
          manifest |-> m]
  ELSE [err |-> NoError,
        manifest |-> [m EXCEPT !.skills = Append(@, Entry(module_path, class_name))]]

\* A faulty _remove_from_manifest, which writes the manifest back as read.
_remove_from_manifest_KeepsAll(m, module_path) == m

\* service.py:536-546
_remove_from_manifest(m, module_path) ==
  IF ~m.isFile THEN m
  ELSE LET Other(e) == e.module # module_path
       IN [m EXCEPT !.skills = SelectSeq(@, Other)]

\* service.py:562-566
_get_active_skill_capabilities == <<>>

\* The failure injected into the package writes of one install: none, or the
\* call that raises OSError.
FsFailures == {"none", "mkdir", "copy2", "write_text"}

\* A faulty package write, which leaves __init__.py out.
WritePackage_NoInit(fsFail) ==
  IF fsFail = "mkdir" THEN NoDir
  ELSE IF fsFail = "copy2" THEN [exists |-> TRUE, files |-> {}]
  ELSE [exists |-> TRUE, files |-> {"skill.py"}]

\* service.py:468-478: the package directory after the writes that succeeded
WritePackage(fsFail) ==
  IF fsFail = "mkdir" THEN NoDir
  ELSE IF fsFail = "copy2" THEN [exists |-> TRUE, files |-> {}]
  ELSE IF fsFail = "write_text" THEN [exists |-> TRUE, files |-> {"skill.py"}]
  ELSE [exists |-> TRUE, files |-> {"skill.py", "__init__.py"}]

\* A faulty rollback, which leaves the manifest entry in place.
InstallRollback_KeepsEntry(m, d, module_name) ==
  [manifest |-> m,
   dirs |-> IF d[module_name].exists THEN [d EXCEPT ![module_name] = NoDir] ELSE d]

\* service.py:479-483: the except branch of the package writes
InstallRollback(m, d, module_name) ==
  [manifest |-> _remove_from_manifest(m, ModulePath(module_name)),
   dirs |-> IF d[module_name].exists THEN [d EXCEPT ![module_name] = NoDir] ELSE d]

\* service.py:424-494: [err, manifest, dirs, notified]
_install_skill(proposal, m, d, im, fsFail) ==
  LET spec == proposal["proposal"]
      slug == spec.slug
      Fail(e) == [err |-> e, manifest |-> m, dirs |-> d, notified |-> <<>>]
      ctx_path == ContextOf(proposal).code_path
      \* 1. the implementation file: the context's, else the slug's candidate
      found == ctx_path # <<>> \/ im[slug].exists
      code_path == IF ctx_path # <<>> THEN ctx_path ELSE slug
      cls == _extract_class_name(im[code_path])
      module_name == _slug_to_module_name(slug)
      module_path == ModulePath(module_name)
      upd == _update_manifest(m, module_path, cls.class_name)
      written == [d EXCEPT ![module_name] = WritePackage(fsFail)]
      back == InstallRollback(upd.manifest, written, module_name)
  IN IF ~found
       THEN Fail(Err("RuntimeError", <<"No implementation file found for">> \o slug))
     ELSE IF cls.err # NoError THEN Fail(cls.err)
     ELSE IF d[module_name].exists
       THEN Fail(Err("RuntimeError", <<"Target directory already exists">> \o module_name))
     ELSE IF upd.err # NoError THEN Fail(upd.err)
     ELSE IF fsFail # "none"
       THEN [err |-> Err("OSError", <<"No space left on device">>),
             manifest |-> back.manifest,
             dirs |-> back.dirs, notified |-> <<>>]
     ELSE [err |-> NoError, manifest |-> upd.manifest, dirs |-> written,
           notified |-> <<"accepted">>]

\* service.py:390-401: [err, proposal, impl]
_generate_code(proposal, im, llm_chat) ==
  LET gen == generate_implementation(proposal, llm_chat)
      slug == proposal["proposal"].slug
  IN IF llm_chat = NoLLM
       THEN [err |-> Err("RuntimeError", <<"No LLM configured for code generation">>),
             proposal |-> proposal, impl |-> im]
     ELSE IF gen.err # NoError
       THEN [err |-> gen.err, proposal |-> proposal, impl |-> im]
     ELSE [err |-> NoError,
           proposal |-> Put(proposal, "_context",
                            [ContextOf(proposal) EXCEPT !.code_path = slug]),
           \* implementer.py:162-176 write_implementation
           impl |-> [im EXCEPT ![slug] = File(gen.code)]]

\* A faulty _run_analysis, which looks the file up by the slug when the
\* proposal carries no code path, as _install_skill does.
_run_analysis_FindsBySlug(proposal, im) ==
  LET code_path == IF ContextOf(proposal).code_path # <<>>
                     THEN ContextOf(proposal).code_path ELSE proposal["proposal"].slug
      result == analyze_file(im[code_path], proposal, _get_active_skill_capabilities)
      analysed == Put(proposal, "_context",
                      [ContextOf(proposal) EXCEPT !.analysis =
                         [present |-> TRUE, clean |-> result.clean,
                          issues |-> result.issues,
                          composition_warnings |-> result.composition_warnings]])
  IN IF has_critical_issues(result)
       THEN [err |-> Err("RuntimeError",
                         <<"Analysis found critical issues: ">> \o Concat(result.issues)),
             proposal |-> analysed]
     ELSE [err |-> NoError, proposal |-> analysed]

\* service.py:403-422: [err, proposal]
_run_analysis(proposal, im) ==
  LET code_path == ContextOf(proposal).code_path
      result == analyze_file(im[code_path], proposal, _get_active_skill_capabilities)
      analysed == Put(proposal, "_context",
                      [ContextOf(proposal) EXCEPT !.analysis =
                         [present |-> TRUE, clean |-> result.clean,
                          issues |-> result.issues,
                          composition_warnings |-> result.composition_warnings]])
  IN IF code_path = <<>>
       THEN [err |-> Err("RuntimeError", <<"No implementation code path found">>),
             proposal |-> proposal]
     ELSE IF has_critical_issues(result)
       THEN [err |-> Err("RuntimeError",
                         <<"Analysis found critical issues: ">> \o Concat(result.issues)),
             proposal |-> analysed]
     ELSE [err |-> NoError, proposal |-> analysed]

\* A faulty _reject, which drops the reason type.
_reject_Untyped(proposal, reason, reason_type) ==
  _append_history(Put(Put(proposal, "status", "rejected"), "rejection_reason", reason),
                  "rejected", "admin-service")

\* service.py:548-560: the proposal after _reject (saved and notified by the
\* caller's step)
_reject(proposal, reason, reason_type) ==
  LET p1 == Put(Put(proposal, "status", "rejected"), "rejection_reason", reason)
      p2 == IF reason_type # "" THEN Put(p1, "rejection_reason_type", reason_type) ELSE p1
  IN _append_history(p2, "rejected", "admin-service")

\* A faulty chain of targets, which goes from agent-review to accepted.
TargetOf_SkipsHumanReview(status) ==
  CASE status = "new" -> "discovered"
    [] status = "discovered" -> "implementation"
    [] status = "implementation" -> "agent-review"
    [] status = "agent-review" -> "accepted"
    [] status = "human-review" -> "accepted"

\* service.py:323-340: the target of the transition attempted from a status
TargetOf(status) ==
  CASE status = "new" -> "discovered"
    [] status = "discovered" -> "implementation"
    [] status = "implementation" -> "agent-review"
    [] status = "agent-review" -> "human-review"
    [] status = "human-review" -> "accepted"

\* service.py:324-340: the action passed to _transition, run on the state;
\* [err, proposal, impl, manifest, dirs, notified]
RunAction(target, proposal, im, m, d, llm_chat, fsFail) ==
  LET Same(e, p) == [err |-> e, proposal |-> p, impl |-> im, manifest |-> m,
                     dirs |-> d, notified |-> <<>>]
  IN CASE target = "discovered" -> Same(_validate_schema(proposal), proposal)
       [] target = "implementation" ->
            LET g == _generate_code(proposal, im, llm_chat)
            IN [Same(g.err, g.proposal) EXCEPT !.impl = g.impl]
       [] target = "agent-review" ->
            LET a == _run_analysis(proposal, im) IN Same(a.err, a.proposal)
       [] target = "human-review" -> Same(NoError, proposal)
       [] target = "accepted" ->
            LET i == _install_skill(proposal, m, d, im, fsFail)
            IN [err |-> i.err, proposal |-> proposal, impl |-> im,
                manifest |-> i.manifest, dirs |-> i.dirs, notified |-> i.notified]

\* The answers the approval channel can give: request_approval over every
\* sequence of typed lines (service.py:370).
Answers == {request_approval(typed) : typed \in TypedInputs}

\* A faulty _transition, which advances whatever the approval channel says.
_transition_IgnoresAnswer(target, gate, a, approved) ==
  IF a.err # NoError
    THEN [proposal |-> _reject(a.proposal, <<"Action failed: ">> \o a.err.msg, a.err.kind),
          asked |-> FALSE, approved |-> FALSE,
          notified |-> a.notified \o <<"rejected">>]
  ELSE [proposal |-> _append_history(Put(a.proposal, "status", target),
                                     target, "admin-service"),
        asked |-> gate = "human", approved |-> gate = "human",
        notified |-> a.notified \o <<target>>]

\* A faulty _transition, which returns on a denial without rejecting.
_transition_DenialReturns(target, gate, a, approved) ==
  LET asked == a.err = NoError /\ gate = "human"
  IN IF a.err # NoError
       THEN [proposal |-> _reject(a.proposal, <<"Action failed: ">> \o a.err.msg, a.err.kind),
             asked |-> FALSE, approved |-> FALSE,
             notified |-> a.notified \o <<"rejected">>]
     ELSE IF asked /\ ~approved
       THEN [proposal |-> a.proposal, asked |-> TRUE, approved |-> FALSE,
             notified |-> a.notified]
     ELSE [proposal |-> _append_history(Put(a.proposal, "status", target),
                                        target, "admin-service"),
           asked |-> asked, approved |-> asked,
           notified |-> a.notified \o <<target>>]

\* service.py:342-380: one transition attempt, given the action's outcome a and
\* the approval channel's answer; [proposal, asked, approved, notified]
_transition(target, gate, a, approved) ==
  LET asked == a.err = NoError /\ gate = "human"
  IN IF a.err # NoError
       THEN [proposal |-> _reject(a.proposal, <<"Action failed: ">> \o a.err.msg, a.err.kind),
             asked |-> FALSE, approved |-> FALSE,
             notified |-> a.notified \o <<"rejected">>]
     ELSE IF asked /\ ~approved
       THEN [proposal |-> _reject(a.proposal, <<"Rejected at ", target, " gate">>, ""),
             asked |-> TRUE, approved |-> FALSE,
             notified |-> a.notified \o <<"rejected">>]
     ELSE [proposal |-> _append_history(Put(a.proposal, "status", target),
                                        target, "admin-service"),
           asked |-> asked, approved |-> asked,
           notified |-> a.notified \o <<target>>]

\* What a step reports: the operation, the record, the target status (or the
\* command's flag), whether a gate action ran and the error raised, whether
\* the approval channel was asked and whether the gate let the proposal on,
\* the statuses passed to notifier.notify, the errors that were only logged,
\* what the step was given (the generator's response, the write fault, the
\* answer the approval channel had to give), for a command the records
\* its argument matches, and whether the step passed a target it wrote to
\* resolve_safe_write_path (no writer of the admin service does:
\* service.py:598, 532, 469-478, implementer.py:172-174), and the words of
\* a line typed at the prompt of the polling loop.
Quiet(op, path) ==
  [op |-> op, path |-> path, target |-> "", acted |-> FALSE, err |-> NoError,
   asked |-> FALSE, approved |-> FALSE, notified |-> <<>>, logged |-> <<>>,
   llm_chat |-> NoLLM, fsFail |-> "none", answer |-> FALSE, matched |-> {},
   checked |-> FALSE, line |-> <<>>]

\* The record _process_proposal is working on, and how many of its five
\* status tests (service.py:323, 327, 331, 335, 339) it has passed.
NoCur == [path |-> 0, proposal |-> <<>>, tested |-> 0]

\* The record the proposer skill writes (proposer/skill.py:146-171).
CapsOf(p) == IF p = 1 THEN <<"user:input", "memory:write">> ELSE <<"llm:call">>
NewRecord(p, slug, description) ==
  [proposal |-> [id |-> IdOf(p), slug |-> slug, name |-> slug,
                 description |-> description, capabilities |-> CapsOf(p)],
   status |-> "new",
   history |-> << [status |-> "new", actor |-> "skill-proposer"] >>]

MemoryEntry == Entry(ModulePath(<<"memory">>), <<"MemorySkill">>)
StaleEntry == Entry(ModulePath(<<"my", "_", "clock">>), <<"OldClock">>)
CorePackage == [exists |-> TRUE, files |-> {"skill.py", "__init__.py"}]

\* The manifests the service may be started on: the shipped one, one with an
\* entry whose package is gone, and a missing file.
\* The descriptions the proposals were written with: the first one's is given,
\* the second's may be empty.
Descriptions ==
  {d \in [Proposals -> {<<>>, <<"tells time">>}] : d[1] # <<>>}

\* The slugs the proposals were written with: the second is a new skill, the
\* first either asks for the same skill or names a core module.
SlugChoices ==
  {sl \in [Proposals -> Slugs] : sl[2] = <<"my", "-", "clock">>}

InitManifests ==
  { [isFile |-> TRUE, skills |-> <<MemoryEntry>>],
    [isFile |-> TRUE, skills |-> <<MemoryEntry, StaleEntry>>] }

AdminInit ==
  /\ \E described \in Descriptions, slug \in SlugChoices :
       records = [p \in Proposals |-> NewRecord(p, slug[p], described[p])]
  /\ impl = [s \in Slugs |-> NoFile]
  /\ manifest \in InitManifests
  /\ dirs = [mod \in Modules |-> IF mod = <<"memory">> THEN CorePackage ELSE NoDir]
  /\ scanning = FALSE
  /\ gates \in GateConfigs
  /\ queue = <<>>
  /\ cur = NoCur
  /\ cmds = 0
  /\ ev = Quiet("init", 0)

\* ---------------------------------------------------------- the scan pass

RECURSIVE Sorted(_)
\* sorted(self._proposals_dir.glob("proposed_*.yaml")), service.py:310
Sorted(S) ==
  IF S = {} THEN <<>>
  ELSE LET least == CHOOSE x \in S : \A y \in S : x <= y
       IN <<least>> \o Sorted(S \ {least})

\* run_once / one turn of run_loop: _scan_and_process starts.
ScanStart ==
  /\ ~scanning
  /\ scanning' = TRUE
  /\ queue' = Sorted(Proposals)
  /\ cur' = NoCur
  /\ ev' = Quiet("scan_start", 0)
  /\ UNCHANGED <<records, impl, manifest, dirs, gates, cmds>>
  /\ UNCHANGED <<kvars, uvars>>

\* _process_proposal has a transition left to attempt on the current record:
\* one of the status tests it has not passed yet matches the record's status.
Pending ==
  /\ cur.path # 0 /\ cur.proposal["status"] \in PipelineStatuses
  /\ \E i \in DOMAIN Targets :
       i > cur.tested /\ Targets[i] = TargetOf(cur.proposal["status"])

\* service.py:310-315: the next path of the loop; a record that
\* _load_proposal skips is not processed.
LoadNext ==
  /\ scanning /\ ~Pending /\ queue # <<>>
  /\ LET path == Head(queue)
         loaded == _load_proposal(records[path])
     IN /\ cur' = IF loaded.none THEN NoCur ELSE [path |-> path, proposal |-> loaded.data, tested |-> 0]
        /\ ev' = Quiet("load", path)
  /\ queue' = Tail(queue)
  /\ UNCHANGED <<records, impl, manifest, dirs, scanning, gates, cmds>>
  /\ UNCHANGED <<kvars, uvars>>

\* service.py:319-380: the next transition of _process_proposal on the
\* current record: the gate action, the gate, the save and the notification.
Transition ==
  /\ scanning /\ Pending
  /\ LET target == TargetOf(cur.proposal["status"])
         gate == gates[target]
     IN \E llm_chat \in (IF target = "implementation" THEN LLMResponses ELSE {NoLLM}),
           fsFail \in (IF target = "accepted" THEN FsFailures ELSE {"none"}),
           approved \in (IF gate = "human" THEN Answers ELSE {TRUE}) :
          \E a \in {RunAction(target, cur.proposal, impl, manifest, dirs, llm_chat, fsFail)} :
          \E t \in {_transition(target, gate, a, approved)} :
             /\ records' = [records EXCEPT ![cur.path] = _save_proposal(t.proposal)]
             /\ impl' = a.impl
             /\ manifest' = a.manifest
             /\ dirs' = a.dirs
             /\ cur' = [cur EXCEPT !.proposal = t.proposal,
                                   !.tested = CHOOSE i \in DOMAIN Targets :
                                                Targets[i] = target]
             /\ ev' = [Quiet("transition", cur.path) EXCEPT
                         !.target = target, !.acted = target # "human-review",
                         !.err = a.err, !.asked = t.asked, !.approved = t.approved,
                         !.notified = t.notified, !.llm_chat = llm_chat,
                         !.fsFail = fsFail, !.answer = approved]
  /\ UNCHANGED <<scanning, gates, queue, cmds>>
  /\ UNCHANGED <<kvars, uvars>>

\* A faulty handling of a record's failure, which lets the exception end the
\* pass.
AfterFailure_Propagates(rest, e) == [scanning |-> FALSE, queue |-> <<>>, raised |-> e]

\* service.py:311-317: the loop body raised e; it is logged and the loop goes
\* on with the paths that are left.
AfterFailure(rest, e) == [scanning |-> TRUE, queue |-> rest, raised |-> NoError]

\* What can raise in _transition and _reject outside the action's try: the
\* write of the record (service.py:378, 562) and the notification after it
\* (service.py:379, 563).
Faults == {"save", "notify"}

\* What a write that failed leaves of the file: open(path, "w") has emptied
\* it, or it was never opened (service.py:598).
AfterSaveFailure(data) == {data, Unreadable}

\* service.py:319-380 with a fault: the transition of _process_proposal on
\* the current record raises out of _transition; the record's processing
\* ends there.
TransitionFails ==
  /\ scanning /\ Pending
  /\ LET target == TargetOf(cur.proposal["status"])
         gate == gates[target]
     IN \E llm_chat \in (IF target = "implementation" THEN LLMResponses ELSE {NoLLM}),
           fsFail \in (IF target = "accepted" THEN FsFailures ELSE {"none"}),
           approved \in (IF gate = "human" THEN Answers ELSE {TRUE}),
           fault \in Faults :
          \E a \in {RunAction(target, cur.proposal, impl, manifest, dirs, llm_chat, fsFail)} :
          \E t \in {_transition(target, gate, a, approved)} :
          \E e \in {IF fault = "save" THEN Err("OSError", <<"save">>)
                                      ELSE Err("OSError", <<"notify">>)} :
          \E after \in {AfterFailure(queue, e)} :
             /\ \E stored \in (IF fault = "save" THEN AfterSaveFailure(records[cur.path])
                                                 ELSE {_save_proposal(t.proposal)}) :
                  records' = [records EXCEPT ![cur.path] = stored]
             /\ impl' = a.impl
             /\ manifest' = a.manifest
             /\ dirs' = a.dirs
             /\ cur' = NoCur
             /\ scanning' = after.scanning
             /\ queue' = after.queue
             /\ ev' = [Quiet("fail", cur.path) EXCEPT
                         !.target = target, !.acted = target # "human-review",
                         !.err = after.raised, !.asked = t.asked, !.approved = t.approved,
                         !.notified = a.notified, !.logged = <<e.kind>> \o e.msg,
                         !.llm_chat = llm_chat, !.fsFail = fsFail, !.answer = approved]
  /\ UNCHANGED <<gates, cmds>>
  /\ UNCHANGED <<kvars, uvars>>

\* service.py:310: the loop has visited every path.
ScanEnd ==
  /\ scanning /\ ~Pending /\ queue = <<>>
  /\ scanning' = FALSE
  /\ cur' = NoCur
  /\ ev' = Quiet("scan_end", 0)
  /\ UNCHANGED <<records, impl, manifest, dirs, gates, queue, cmds>>
  /\ UNCHANGED <<kvars, uvars>>

\* ------------------------------------------------------ admin commands

\* service.py:143 / 198: the record is the one the command names
Matches(data, id_or_slug) ==
  data["proposal"].id = id_or_slug \/ data["proposal"].slug = id_or_slug

\* What a command may be given: an id, a slug, or a name that matches nothing.
Keys == {IdOf(p) : p \in Proposals} \cup Slugs \cup {<<"no", "-", "such">>}

RECURSIVE Perms(_)
\* The orders in which glob() may yield a set of paths (service.py:136, 191:
\* not sorted).
Perms(S) ==
  IF S = {} THEN {<<>>}
  ELSE UNION {{<<x>> \o rest : rest \in Perms(S \ {x})} : x \in S}

Outcome(err, recs, m, d, path, notified) ==
  [err |-> err, records |-> recs, manifest |-> m, dirs |-> d, path |-> path,
   notified |-> notified, logged |-> <<>>, matched |-> {}]

RECURSIVE approve_proposal_AnyStatus(_, _, _, _, _, _, _, _)
\* A faulty approve_proposal, which takes every status as approvable.
approve_proposal_AnyStatus(order, id_or_slug, force, fs, recs, m, d, im) ==
  IF order = <<>>
    THEN Outcome(Err("ValueError", <<"No proposal found matching">> \o id_or_slug),
                 recs, m, d, 0, <<>>)
  ELSE LET path == Head(order)
           data == recs[path]
           i == _install_skill(data, m, d, im, fs[path])
           approved == _append_history(Put(data, "status", "accepted"),
                                       "accepted", "admin-cli")
       IN IF i.err.kind \in {"ValueError", "RuntimeError"}
            THEN Outcome(i.err, recs, i.manifest, i.dirs, path, <<>>)
          ELSE IF i.err # NoError
            THEN LET rest == approve_proposal_AnyStatus(Tail(order), id_or_slug, force,
                                                        fs, recs, i.manifest, i.dirs, im)
                 IN [rest EXCEPT !.logged = <<i.err.kind>> \o @]
          ELSE Outcome(NoError,
                       [recs EXCEPT ![path] = _save_proposal(approved)],
                       i.manifest, i.dirs, path, i.notified)

RECURSIVE approve_proposal(_, _, _, _, _, _, _, _)
\* service.py:120-169 over the matching paths in glob order (a path that does
\* not match is passed over, line 143); fs gives each install its write fault.
approve_proposal(order, id_or_slug, force, fs, recs, m, d, im) ==
  IF order = <<>>
    THEN Outcome(Err("ValueError", <<"No proposal found matching">> \o id_or_slug),
                 recs, m, d, 0, <<>>)
  ELSE LET path == Head(order)
           data == recs[path]
           i == _install_skill(data, m, d, im, fs[path])
           approved == _append_history(Put(data, "status", "accepted"),
                                       "accepted", "admin-cli")
       IN IF ~force /\ data["status"] # "human-review"
            THEN Outcome(Err("ValueError", <<"is in status", data["status"]>>),
                         recs, m, d, path, <<>>)
          ELSE IF i.err.kind \in {"ValueError", "RuntimeError"}
            THEN Outcome(i.err, recs, i.manifest, i.dirs, path, <<>>)
          ELSE IF i.err # NoError
            \* except Exception: logged, and the loop goes on
            THEN LET rest == approve_proposal(Tail(order), id_or_slug, force, fs,
                                              recs, i.manifest, i.dirs, im)
                 IN [rest EXCEPT !.logged = <<i.err.kind>> \o @]
          ELSE Outcome(NoError,
                       [recs EXCEPT ![path] = _save_proposal(approved)],
                       i.manifest, i.dirs, path, i.notified)

\* service.py:173-237 on the first matching path in glob order
remove_skill(order, id_or_slug, recs, m, d) ==
  IF order = <<>>
    THEN Outcome(Err("ValueError", <<"No proposal found matching">> \o id_or_slug),
                 recs, m, d, 0, <<>>)
  ELSE LET path == Head(order)
           data == recs[path]
           module_name == _slug_to_module_name(data["proposal"].slug)
           removed == _append_history(Put(data, "status", "removed"),
                                      "removed", "admin-cli")
       IN IF module_name \in _CORE_MODULES
            THEN Outcome(Err("ValueError", <<"Cannot remove core skill">>),
                         recs, m, d, path, <<>>)
          ELSE Outcome(NoError,
                       [recs EXCEPT ![path] = _save_proposal(removed)],
                       _remove_from_manifest(m, ModulePath(module_name)),
                       IF d[module_name].exists
                         THEN [d EXCEPT ![module_name] = NoDir] ELSE d,
                       path, <<>>)

Matching(id_or_slug) == {p \in Proposals : Matches(records[p], id_or_slug)}

\* The command gets as far as the package writes of record p
\* (service.py:468-478): only there can a write fail.
WritesReached(p, force) ==
  /\ force \/ records[p]["status"] = "human-review"
  /\ _install_skill(records[p], manifest, dirs, impl, "none").err = NoError

\* The write that fails, if any, for each record the command may come to.
FsChoices(S, force) ==
  {fs \in [S -> FsFailures] : \A p \in S : ~WritesReached(p, force) => fs[p] = "none"}

\* cl-admin approve <id|slug> [--force] (main.py:205-213), between passes.
ApproveProposal ==
  /\ ~scanning /\ cmds < MaxCommands
  /\ \E force \in BOOLEAN :
       \E r \in UNION {{[approve_proposal(order, id_or_slug, force, fs,
                                          records, manifest, dirs, impl)
                           EXCEPT !.matched = Matching(id_or_slug)] :
                          order \in Perms(Matching(id_or_slug)),
                          fs \in FsChoices(Matching(id_or_slug), force)} :
                        id_or_slug \in Keys} :
            /\ records' = r.records
            /\ manifest' = r.manifest
            /\ dirs' = r.dirs
            /\ ev' = [Quiet("approve", r.path) EXCEPT
                        !.target = IF force THEN "--force" ELSE "",
                        !.err = r.err, !.notified = r.notified,
                        !.logged = r.logged, !.matched = r.matched]
  /\ cmds' = cmds + 1
  /\ UNCHANGED <<impl, scanning, gates, queue, cur>>
  /\ UNCHANGED <<kvars, uvars>>

\* cl-admin remove <id|slug> (main.py:215-223), between passes.
RemoveSkill ==
  /\ ~scanning /\ cmds < MaxCommands
  /\ \E r \in UNION {{[remove_skill(order, id_or_slug, records, manifest, dirs)
                         EXCEPT !.matched = Matching(id_or_slug)] :
                        order \in Perms(Matching(id_or_slug))} :
                      id_or_slug \in Keys} :
       /\ records' = r.records
       /\ manifest' = r.manifest
       /\ dirs' = r.dirs
       /\ ev' = [Quiet("remove", r.path) EXCEPT
                   !.err = r.err, !.matched = r.matched]
  /\ cmds' = cmds + 1
  /\ UNCHANGED <<impl, scanning, gates, queue, cur>>
  /\ UNCHANGED <<kvars, uvars>>

\* service.py:75-81, 275-303: a line typed while run_loop waits between two
\* passes, handled by _handle_command.  list and help print; approve calls
\* approve_proposal and prints its result or its ValueError/RuntimeError;
\* every other first word, remove included, prints "Unknown command".
HandleCommand ==
  /\ ~scanning /\ cmds < MaxCommands
  /\ \/ \E cmd \in {"list", "help", "remove"}, id_or_slug \in Keys :
          /\ ev' = [Quiet("command", 0) EXCEPT
                      !.line = <<cmd, id_or_slug>>,
                      !.err = IF cmd = "remove"
                                THEN Err("Unknown command", <<cmd>>) ELSE NoError]
          /\ UNCHANGED <<records, manifest, dirs>>
     \/ \E force \in BOOLEAN :
          \E r \in UNION {{[approve_proposal(order, id_or_slug, force, fs,
                                             records, manifest, dirs, impl)
                              EXCEPT !.matched = Matching(id_or_slug),
                                     !.logged = <<"approve", id_or_slug>>] :
                             order \in Perms(Matching(id_or_slug)),
                             fs \in FsChoices(Matching(id_or_slug), force)} :
                           id_or_slug \in Keys} :
            /\ records' = r.records
            /\ manifest' = r.manifest
            /\ dirs' = r.dirs
            /\ ev' = [Quiet("command", r.path) EXCEPT
                        !.line = r.logged \o (IF force THEN <<"--force">> ELSE <<>>),
                        !.err = r.err, !.notified = r.notified, !.matched = r.matched]
  /\ cmds' = cmds + 1
  /\ UNCHANGED <<impl, scanning, gates, queue, cur>>
  /\ UNCHANGED <<kvars, uvars>>

Next ==
  \/ ScanStart
  \/ LoadNext
  \/ Transition
  \/ ScanEnd
  \/ ApproveProposal
  \/ RemoveSkill

\* ------------------------------------------------------ the user agent

\* kernel.py:21-27
_EVENT_CAPABILITIES ==
  [type \in {"user_input", "user_output", "memory_query", "memory_store"} |->
     CASE type = "user_input" -> "user:input"
       [] type = "user_output" -> "user:output"
       [] type = "memory_query" -> "memory:read"
       [] type = "memory_store" -> "memory:write"]

\* The event types skills dispatch: the mapped ones and skill_proposal,
\* which the table leaves out.
EventTypes == DOMAIN _EVENT_CAPABILITIES \cup {"skill_proposal"}

Skill(name, capabilities, handles_events) ==
  [name |-> name, capabilities |-> capabilities, handles_events |-> handles_events]

\* The shipped skills (cli/skill.py, reasoning/skill.py, memory/skill.py,
\* proposer/skill.py) and two installed ones that listen to memory_store: one
\* declares no capability, the other is a second communication skill.
SkillPool ==
  { Skill("cli", {"user:input", "user:output"}, <<>>),
    Skill("reasoning", {"llm:call", "memory:read", "memory:write"}, <<"user_input">>),
    Skill("memory", {"memory:read", "memory:write", "llm:call"},
          <<"memory_query", "memory_store">>),
    Skill("skill-proposer", {"llm:call", "file:write"}, <<"skill_proposal">>),
    Skill("my-clock", {}, <<"memory_store">>),
    Skill("my-chat", {"user:input", "user:output"}, <<"memory_store">>) }

\* The names an event may carry as its source: a skill's own name, or a
\* name no skill has.
Sources == {sk.name : sk \in SkillPool} \cup {"ghost"}

Events == [type : EventTypes, source : Sources]

NoEvent == [type |-> "", source |-> ""]

\* SkillResult | None
NoResult == [none |-> TRUE, success |-> FALSE, output |-> <<>>]
SkillResult(success, output) == [none |-> FALSE, success |-> success, output |-> output]

\* What each of the given handlers does with the event: returns None,
\* returns a result, or raises.
HandlerOutcomes(handlers) ==
  [{sk.name : sk \in Range(handlers)} -> {"none", "result", "raise"}]

\* base.py:169-170: [none, skill]
get(reg, name) ==
  IF \E i \in DOMAIN reg.skills : reg.skills[i].name = name
    THEN [none |-> FALSE,
          skill |-> reg.skills[CHOOSE i \in DOMAIN reg.skills : reg.skills[i].name = name]]
  ELSE [none |-> TRUE, skill |-> Skill("", {}, <<>>)]

\* base.py:172-174
find_by_event(reg, event_type) ==
  SelectSeq(reg.skills, LAMBDA sk : event_type \in Range(sk.handles_events))

\* A faulty find_driver, which returns the last skill declaring user:input.
find_driver_Last(reg) ==
  LET drivers == SelectSeq(reg.skills, LAMBDA sk : "user:input" \in sk.capabilities)
  IN IF drivers = <<>> THEN [none |-> TRUE, skill |-> Skill("", {}, <<>>)]
     ELSE [none |-> FALSE, skill |-> drivers[Len(drivers)]]

\* base.py:187-192: [none, skill]
find_driver(reg) ==
  LET drivers == SelectSeq(reg.skills, LAMBDA sk : "user:input" \in sk.capabilities)
  IN IF drivers = <<>> THEN [none |-> TRUE, skill |-> Skill("", {}, <<>>)]
     ELSE [none |-> FALSE, skill |-> Head(drivers)]

\* A faulty register, which takes skills after the freeze as before it.
register_IgnoresFrozen(reg, skill) ==
  IF ~get(reg, skill.name).none
    THEN [err |-> NoError, registry |-> reg]
  ELSE [err |-> NoError, registry |-> [reg EXCEPT !.skills = Append(@, skill)]]

\* base.py:159-167: [err, registry]
register(reg, skill) ==
  IF reg.frozen
    THEN [err |-> Err("RuntimeError", <<"Skill registry is frozen">>), registry |-> reg]
  ELSE IF ~get(reg, skill.name).none
    THEN [err |-> NoError, registry |-> reg]
  ELSE [err |-> NoError, registry |-> [reg EXCEPT !.skills = Append(@, skill)]]

\* base.py:154-157
freeze(reg) == [reg EXCEPT !.frozen = TRUE]

RECURSIVE load_from_manifest(_, _, _)
\* base.py:212-232: the loop over the manifest's entries, each given as the
\* skill its class makes; an entry whose registration raises is logged and
\* the loop goes on. [registry, logged]
load_from_manifest(reg, entries, logged) ==
  IF entries = <<>> THEN [registry |-> reg, logged |-> logged]
  ELSE LET r == register(reg, Head(entries))
       IN load_from_manifest(r.registry, Tail(entries),
                             IF r.err # NoError THEN Append(logged, Head(entries).name)
                                                ELSE logged)

RECURSIVE Route_BackToSource(_, _, _, _, _)
\* A faulty routing loop, which also hands the event to the skill it came from.
Route_BackToSource(handlers, event, outcome, called, failed) ==
  IF handlers = <<>>
    THEN [called |-> called, failed |-> failed, result |-> NoResult]
  ELSE LET skill == Head(handlers)
       IN IF outcome[skill.name] = "result"
            THEN [called |-> Append(called, skill.name), failed |-> failed,
                  result |-> SkillResult(TRUE, <<"handled by ", skill.name>>)]
          ELSE Route_BackToSource(Tail(handlers), event, outcome,
                                  Append(called, skill.name),
                                  IF outcome[skill.name] = "raise"
                                    THEN Append(failed, skill.name) ELSE failed)

RECURSIVE Route_StopsAtRaise(_, _, _, _, _)
\* A faulty routing loop, which gives up at the first handler that raises.
Route_StopsAtRaise(handlers, event, outcome, called, failed) ==
  IF handlers = <<>>
    THEN [called |-> called, failed |-> failed, result |-> NoResult]
  ELSE LET skill == Head(handlers)
       IN IF skill.name = event.source
            THEN Route_StopsAtRaise(Tail(handlers), event, outcome, called, failed)
          ELSE IF outcome[skill.name] = "result"
            THEN [called |-> Append(called, skill.name), failed |-> failed,
                  result |-> SkillResult(TRUE, <<"handled by ", skill.name>>)]
          ELSE IF outcome[skill.name] = "raise"
            THEN [called |-> Append(called, skill.name),
                  failed |-> Append(failed, skill.name), result |-> NoResult]
          ELSE Route_StopsAtRaise(Tail(handlers), event, outcome,
                                  Append(called, skill.name), failed)

RECURSIVE Route(_, _, _, _, _)
\* kernel.py:115-126: the loop over the handlers still to try; called is
\* the handlers invoked so far, failed those whose exception was logged.
Route(handlers, event, outcome, called, failed) ==
  IF handlers = <<>>
    THEN [called |-> called, failed |-> failed, result |-> NoResult]
  ELSE LET skill == Head(handlers)
       IN IF skill.name = event.source
            THEN Route(Tail(handlers), event, outcome, called, failed)
          ELSE IF outcome[skill.name] = "result"
            THEN [called |-> Append(called, skill.name), failed |-> failed,
                  result |-> SkillResult(TRUE, <<"handled by ", skill.name>>)]
          ELSE Route(Tail(handlers), event, outcome, Append(called, skill.name),
                     IF outcome[skill.name] = "raise"
                       THEN Append(failed, skill.name) ELSE failed)

\* A faulty dispatch, which routes without the capability check.
dispatch_Unchecked(reg, event, outcome) ==
  Route(find_by_event(reg, event.type), event, outcome, <<>>, <<>>)

\* kernel.py:91-126: [called, failed, result]
dispatch(reg, event, outcome) ==
  LET mapped == event.type \in DOMAIN _EVENT_CAPABILITIES
      source_skill == get(reg, event.source)
  IN IF mapped /\ ~source_skill.none
        /\ _EVENT_CAPABILITIES[event.type] \notin source_skill.skill.capabilities
       THEN [called |-> <<>>, failed |-> <<>>,
             result |-> SkillResult(FALSE, <<"Missing capability: ",
                                             _EVENT_CAPABILITIES[event.type]>>)]
     ELSE Route(find_by_event(reg, event.type), event, outcome, <<>>, <<>>)

\* base.py:23-43: a tool of a skill, by the skill that exposes it and its
\* place in that skill's list; execute returns a string or raises.
Tool(name, skill, place, raises) ==
  [name |-> name, skill |-> skill, place |-> place, raises |-> raises]

\* base.py:146-152: the tools of the registered skills, skill after skill
\* in registration order.
all_tools(tools) == Concat(tools)

\* tool.execute(**arguments): [err, value]. Arguments the signature does
\* not take raise TypeError before the body runs.
execute(tool, arguments) ==
  IF arguments = "misfit"
    THEN [err |-> Err("TypeError", <<"unexpected keyword argument">>), value |-> <<>>]
  ELSE IF tool.raises
    THEN [err |-> Err("Exception", <<"failed in ", tool.skill>>), value |-> <<>>]
  ELSE [err |-> NoError, value |-> <<"done by ", tool.skill, ToString(tool.place)>>]

\* A faulty _call_tool, which goes on to the next tool of that name when
\* one raises.
_call_tool_TriesNext(tools, name, arguments) ==
  LET named == SelectSeq(all_tools(tools), LAMBDA t : t.name = name)
      sound == SelectSeq(named, LAMBDA t : execute(t, arguments).err = NoError)
  IN IF named = <<>> THEN [err |-> NoError, value |-> <<"Unknown tool: ", name>>]
     ELSE IF sound = <<>>
       THEN [err |-> NoError,
             value |-> <<"Tool error: ">> \o execute(Head(named), arguments).err.msg]
     ELSE [err |-> NoError, value |-> execute(Head(sound), arguments).value]

\* kernel.py:147-156: [err, value]
_call_tool(tools, name, arguments) ==
  LET named == SelectSeq(all_tools(tools), LAMBDA t : t.name = name)
      r == execute(Head(named), arguments)
  IN IF named = <<>> THEN [err |-> NoError, value |-> <<"Unknown tool: ", name>>]
     ELSE IF r.err # NoError
       THEN [err |-> NoError, value |-> <<"Tool error: ">> \o r.err.msg]
     ELSE [err |-> NoError, value |-> r.value]

\* What a kernel operation reports: the event, what each invoked handler
\* did, the handlers invoked and those that raised, the result returned,
\* the error raised to the caller,
\* for boot the skills whose on_load ran and the driver that was run,
\* for register the skill that was offered, and for load_from_manifest the
\* skills its entries name (failed then holds those that were only logged).
KQuiet(op) ==
  [op |-> op, event |-> NoEvent, called |-> <<>>, failed |-> <<>>,
   result |-> NoResult, err |-> NoError, loaded |-> <<>>, driver |-> "",
   skill |-> "", outcome |-> <<>>, entries |-> <<>>]

\* SkillRegistry.__init__ (base.py:134-136), Kernel.__init__ (kernel.py:54)
KernelInit ==
  /\ registry = [skills |-> <<>>, frozen |-> FALSE]
  /\ ctx = FALSE
  /\ kev = KQuiet("init")

\* registry.register(instance), from load_from_manifest (base.py:230) or
\* from any later caller
Register ==
  /\ registry.frozen \/ Len(registry.skills) < MaxSkills
  /\ \E skill \in SkillPool :
       \E r \in {register(registry, skill)} :
          /\ registry' = r.registry
          /\ kev' = [KQuiet("register") EXCEPT !.err = r.err, !.skill = skill.name]
  /\ UNCHANGED ctx
  /\ UNCHANGED <<avars, uvars>>

\* The order in which the shipped manifest and the admin service, which
\* appends, list the skills.
ManifestOrder ==
  <<"cli", "reasoning", "memory", "skill-proposer", "my-clock", "my-chat">>

\* The manifests to load: some skills of the pool, listed in that order.
Manifests ==
  LET chosen == {S \in SUBSET DOMAIN ManifestOrder :
                   S # {} /\ Cardinality(S) <= MaxEntries}
      Named(i) == CHOOSE sk \in SkillPool : sk.name = ManifestOrder[i]
      Listed(S) == LET at == Sorted(S) IN [k \in DOMAIN at |-> Named(at[k])]
  IN {Listed(S) : S \in chosen}

\* registry.load_from_manifest(path) (user/main.py:107-108, or any later
\* caller), on a manifest that names skills of the pool.
LoadFromManifest ==
  /\ \E entries \in Manifests :
       /\ registry.frozen \/ Len(registry.skills) + Len(entries) <= MaxSkills
       /\ \E r \in {load_from_manifest(registry, entries, <<>>)} :
            /\ registry' = r.registry
            /\ kev' = [KQuiet("load_from_manifest") EXCEPT
                        !.failed = r.logged,
                        !.entries = [i \in DOMAIN entries |-> entries[i].name]]
  /\ UNCHANGED ctx
  /\ UNCHANGED <<avars, uvars>>

\* kernel.py:56-89, called once by main (user/main.py:129)
Boot ==
  /\ ~registry.frozen
  /\ registry' = freeze(registry)
  /\ LET driver == find_driver(registry')
     IN IF driver.none
          THEN /\ ctx' = ctx
               /\ kev' = [KQuiet("boot") EXCEPT
                            !.err = Err("RuntimeError", <<"No skill with 'user:input'">>)]
          ELSE /\ ctx' = TRUE
               /\ kev' = [KQuiet("boot") EXCEPT
                            !.loaded = [i \in DOMAIN registry.skills |->
                                          registry.skills[i].name],
                            !.driver = driver.skill.name]
  /\ UNCHANGED <<avars, uvars>>

\* ctx.dispatch(event), which skills hold once boot has built the context;
\* the event's source is a registered skill's name or a name none of them has.
Dispatch ==
  /\ ctx
  /\ \E event \in {e \in Events : e.source = "ghost" \/ ~get(registry, e.source).none} :
       \E r \in {LET d == dispatch(registry, event, outcome)
                   IN [called |-> d.called, failed |-> d.failed, result |-> d.result,
                       outcome |-> [name \in Range(d.called) |-> outcome[name]]] :
                   outcome \in HandlerOutcomes(find_by_event(registry, event.type))} :
          kev' = [KQuiet("dispatch") EXCEPT !.event = event, !.called = r.called,
                                            !.failed = r.failed, !.result = r.result,
                                            !.outcome = r.outcome]
  /\ UNCHANGED <<registry, ctx>>
  /\ UNCHANGED <<avars, uvars>>

\* ------------------------------------------------------ path confinement

\* A path is its segments; an absolute one starts at the root directory.
Path(absolute, parts) == [absolute |-> absolute, parts |-> parts]

\* The data directory of the installation (an absolute path).
DataDir == <<"data">>

\* The paths a caller may pass as a write target.
WriteTargets ==
  LET Segments == {".", "..", "data", "profiles", "proposals", "logs", "etc", "link"}
  IN {Path(absolute, parts) : absolute \in BOOLEAN, parts \in SeqsUpTo(Segments, MaxDepth)}

\* The symbolic links that may be there: none, one inside an allowed
\* directory that leads out of the data directory, one beside the allowed
\* directories that leads into one.
LinkConfigs ==
  { {},
    {[at |-> <<"data", "profiles", "link">>, to |-> <<"etc">>]},
    {[at |-> <<"data", "link">>, to |-> <<"data", "profiles">>]} }

RECURSIVE Walk(_, _, _)
\* Path.resolve() (helpers.py:50-51), non-strict: the segments are taken
\* in turn from the root; "." stays, ".." goes up (the root is its own
\* parent), a name that is a link is replaced by the link's target.
Walk(done, rest, links) ==
  IF rest = <<>> THEN done
  ELSE LET s == Head(rest)
           next == Append(done, s)
       IN IF s = "." THEN Walk(done, Tail(rest), links)
          ELSE IF s = ".."
            THEN Walk(IF done = <<>> THEN <<>> ELSE SubSeq(done, 1, Len(done) - 1),
                      Tail(rest), links)
          ELSE IF \E l \in links : l.at = next
            THEN Walk((CHOOSE l \in links : l.at = next).to, Tail(rest), links)
          ELSE Walk(next, Tail(rest), links)

\* helpers.py:149-155
_is_path_under(path, parent) ==
  Len(path) >= Len(parent) /\ SubSeq(path, 1, Len(parent)) = parent

\* A faulty allow-list, which also lets writes into logs.
_ALLOWED_WRITE_SUBDIRS_WithLogs == {"profiles", "proposals", "logs"}

\* helpers.py:18
_ALLOWED_WRITE_SUBDIRS == {"profiles", "proposals"}

\* helpers.py:37-74: [err, path].  In data_root / relative_path an absolute
\* right operand replaces the left one.
resolve_safe_write_path(data_dir, relative_path, links) ==
  LET PathViolationError == Err("PathViolationError", <<>>)
      data_root == Walk(<<>>, data_dir, links)
      target == Walk(<<>>, IF relative_path.absolute THEN relative_path.parts
                           ELSE data_root \o relative_path.parts, links)
      rel == SubSeq(target, Len(data_root) + 1, Len(target))
      top_dir == IF rel # <<>> THEN rel[1] ELSE ""
  IN IF ~_is_path_under(target, data_root)
       THEN [err |-> PathViolationError, path |-> <<>>]
     ELSE IF top_dir \notin _ALLOWED_WRITE_SUBDIRS
       THEN [err |-> PathViolationError, path |-> <<>>]
     ELSE [err |-> NoError, path |-> target]

\* The longest profile identifier the pattern matches (helpers.py:21: one
\* character and up to 63 more).
MaxProfileIdLen == 64

\* The identifiers a caller may pass, as sequences of characters: the short
\* ones over letters, digits, '-', '_', '/', '.' and the newline, and long
\* ones around the length limit, with and without a newline at the end.
ProfileIds ==
  LET Chars == {"a", "7", "-", "_", "/", ".", "\n"}
      Rep(n) == [i \in 1..n |-> "a"]
  IN SeqsUpTo(Chars, MaxIdLen)
       \cup {Rep(n) : n \in (MaxProfileIdLen - 1)..(MaxProfileIdLen + 1)}
       \cup {Append(Rep(n), "\n") : n \in (MaxProfileIdLen - 1)..MaxProfileIdLen}

\* _PROFILE_ID_RE.match(profile_id) (helpers.py:21, 29): the pattern
\* ^[a-zA-Z0-9][a-zA-Z0-9_-]{0,63}$ matches when some prefix of n characters
\* fits the two classes and $ holds after it, which it does at the end of
\* the string and also just before a newline that ends the string.
_PROFILE_ID_RE_match(profile_id) ==
  LET Alnum == {"a", "7"}
      Word == Alnum \cup {"_", "-"}
      AtDollar(n) == \/ n = Len(profile_id)
                     \/ n = Len(profile_id) - 1 /\ profile_id[Len(profile_id)] = "\n"
  IN \E n \in 1..Len(profile_id) :
       /\ n <= MaxProfileIdLen
       /\ profile_id[1] \in Alnum
       /\ \A i \in 2..n : profile_id[i] \in Word
       /\ AtDollar(n)

\* helpers.py:24-34: the error raised, if any
validate_profile_id(profile_id) ==
  IF ~_PROFILE_ID_RE_match(profile_id) THEN Err("ValueError", <<"Invalid profile ID">>)
  ELSE NoError

\* helpers.py:77-99: [err, created], the directories made.  An identifier
\* that passed validate_profile_id has no '/' and does not start with '.',
\* so it is one segment of profiles/<profile_id>, written "<profile_id>" in
\* the path given to resolve_safe_write_path.
ensure_profile_dirs(data_dir, profile_id) ==
  LET v == validate_profile_id(profile_id)
      r == resolve_safe_write_path(data_dir, Path(FALSE, <<"profiles", "<profile_id>">>), {})
  IN IF v # NoError THEN [err |-> v, created |-> {}]
     ELSE IF r.err # NoError THEN [err |-> r.err, created |-> {}]
     ELSE [err |-> NoError,
           created |-> {<<"profiles", profile_id, "memory">>,
                        <<"profiles", profile_id, "logs">>}]

\* The active skills an analysis may be given: name and capabilities.
ActiveSkills ==
  LET pool == {[name |-> "memory", caps |-> <<"memory:write">>],
               [name |-> "web", caps |-> <<"network:read">>],
               [name |-> "notes", caps |-> <<"user:input", "memory:write">>]}
  IN {a \in SeqsUpTo(pool, 2) : \A i, j \in DOMAIN a : i # j => a[i].name # a[j].name}

\* The capabilities a proposal may declare.
ProposalCapabilities ==
  SeqsUpTo({"memory:write", "user:input", "network:read"}, 2)

\* The sources an analysis may be given, a statement or expression a line:
\* imports of a forbidden module, of a submodule of one and of a harmless
\* one, from-imports of a forbidden module and of the package itself
\* (module None), calls of a forbidden builtin by name and as an attribute,
\* of a harmless function and of a function that has no name, string
\* literals with and without an execution pattern, and a line that does not
\* parse.
Codes ==
  LET lines == {Line("import", <<"os">>, ""), Line("import", <<"os", "path">>, ""),
                Line("import", <<"json">>, ""), Line("from", <<"os">>, ""),
                Line("from", <<>>, ""), Line("call", <<"eval">>, ""),
                Line("call", <<"builtins", "eval">>, ""), Line("call", <<"len">>, ""),
                Line("call", <<>>, ""), Line("str", <<"run ", "eval(", "x)">>, ""),
                Line("str", <<"hello">>, ""), Line("garbage", <<>>, "")}
  IN SeqsUpTo(lines, MaxLines)

\* The implementation files an analysis may be given.
Files ==
  {NoFile} \cup {File(c) : c \in {GoodCode, ImportCode, NoClassCode, BrokenCode}}
           \cup {File(c) : c \in {c \in Codes : Len(c) <= 1}}

\* The proposals at agent-review: the records of the proposer skill, after
\* _generate_code (service.py:398-401) or loaded again from their files.
Analysed ==
  LET slug == <<"my", "-", "clock">>
      new(p) == NewRecord(p, slug, <<"tells time">>)
  IN {new(p) : p \in Proposals}
       \cup {Put(new(p), "_context", [EmptyContext EXCEPT !.code_path = slug]) :
               p \in Proposals}

\* A call that has not returned.
Call(fn, arg, env) ==
  [fn |-> fn, arg |-> arg, env |-> env, returned |-> FALSE, out |-> <<>>]

\* self._entries: None, or a list of entries.
None == [none |-> TRUE, list |-> <<>>]
Some(list) == [none |-> FALSE, list |-> list]

\* manager.py:30-41 and the file as ensure_profile_dirs leaves it: absent,
\* or there from an earlier run.
MemoryManager(exists) ==
  [exists |-> exists, file |-> <<>>, _entries |-> None,
   main |-> "idle", entries |-> <<>>, retrieved |-> 0, after |-> 0,
   result |-> None,
   background |-> "idle", stored |-> 0]

\* No library function is being applied, and the manager of a new profile.
UtilInit == call = Call("", <<>>, {}) /\ mem = MemoryManager(FALSE)

\* manager.py:89-97, 172: the main path calls retrieve, which enters
\* _load_entries and tests the cache; the stores that had returned by then
\* are noted.
Retrieve ==
  /\ mem.main = "idle" /\ mem.retrieved < MaxRetrievals
  /\ mem' = [mem EXCEPT !.main = IF mem._entries.none THEN "exists" ELSE "return",
                         !.after = mem.stored]
  /\ UNCHANGED <<avars, kvars, call>>

\* manager.py:175-178: path.exists(), and entries = [] for a file that is
\* not there
PathExists ==
  /\ mem.main = "exists"
  /\ mem' = IF mem.exists THEN [mem EXCEPT !.main = "read"]
             ELSE [mem EXCEPT !.main = "assign", !.entries = <<>>]
  /\ UNCHANGED <<avars, kvars, call>>

\* manager.py:180-200: the file is read and parsed into the local entries
ReadText ==
  /\ mem.main = "read"
  /\ mem' = [mem EXCEPT !.main = "assign", !.entries = mem.file]
  /\ UNCHANGED <<avars, kvars, call>>

\* manager.py:177, 202: self._entries = entries
CacheAssign ==
  /\ mem.main = "assign"
  /\ mem' = [mem EXCEPT !.main = "return", !._entries = Some(mem.entries)]
  /\ UNCHANGED <<avars, kvars, call>>

\* manager.py:173, 178, 203: return self._entries, from which retrieve
\* computes its result
CacheReturn ==
  /\ mem.main = "return"
  /\ mem' = [mem EXCEPT !.main = "idle", !.result = mem._entries,
                         !.retrieved = mem.retrieved + 1]
  /\ UNCHANGED <<avars, kvars, call>>

\* manager.py:51-63: the background thread calls store, which appends the
\* entry's line to the file (helpers.py:132-141 creates it when absent)
StoreAppend ==
  /\ mem.background = "idle" /\ mem.stored < MaxStores
  /\ mem' = [mem EXCEPT !.background = "invalidate", !.exists = TRUE,
                         !.file = Append(mem.file, mem.stored + 1)]
  /\ UNCHANGED <<avars, kvars, call>>

\* manager.py:65-67: self._entries = None, and store returns
StoreInvalidate ==
  /\ mem.background = "invalidate"
  /\ mem' = [mem EXCEPT !.background = "idle", !._entries = None,
                         !.stored = mem.stored + 1]
  /\ UNCHANGED <<avars, kvars, call>>

\* resolve_safe_write_path(data_dir, p) on a target, with the links there
ResolveSafeWritePath ==
  /\ call.fn = "resolve_safe_write_path" /\ ~call.returned
  /\ call' = [call EXCEPT !.returned = TRUE,
                          !.out = resolve_safe_write_path(DataDir, call.arg, call.env)]
  /\ UNCHANGED <<avars, kvars, mem>>

\* ensure_profile_dirs(data_dir, profile_id) on an identifier
EnsureProfileDirs ==
  /\ call.fn = "ensure_profile_dirs" /\ ~call.returned
  /\ call' = [call EXCEPT !.returned = TRUE,
                          !.out = ensure_profile_dirs(DataDir, call.arg)]
  /\ UNCHANGED <<avars, kvars, mem>>

\* analyze_composition(proposal_capabilities, active_skill_capabilities)
AnalyzeComposition ==
  /\ call.fn = "analyze_composition" /\ ~call.returned
  /\ call' = [call EXCEPT !.returned = TRUE,
                          !.out = analyze_composition(call.arg, call.env)]
  /\ UNCHANGED <<avars, kvars, mem>>

\* analyze_code_safety(code)
AnalyzeCodeSafety ==
  /\ call.fn = "analyze_code_safety" /\ ~call.returned
  /\ call' = [call EXCEPT !.returned = TRUE, !.out = analyze_code_safety(call.arg)]
  /\ UNCHANGED <<avars, kvars, mem>>

\* analyze_file(code_path, proposal, active_skills)
AnalyzeFile ==
  /\ call.fn = "analyze_file" /\ ~call.returned
  /\ call' = [call EXCEPT !.returned = TRUE,
                          !.out = analyze_file(call.arg.file, call.arg.proposal, call.env)]
  /\ UNCHANGED <<avars, kvars, mem>>

\* The agent-review action: _run_analysis(proposal, path), on the
\* implementations directory env.
RunAnalysis ==
  /\ call.fn = "_run_analysis" /\ ~call.returned
  /\ call' = [call EXCEPT !.returned = TRUE, !.out = _run_analysis(call.arg, call.env)]
  /\ UNCHANGED <<avars, kvars, mem>>

\* Kernel._call_tool(name, arguments) on the tools env of the registered
\* skills
CallTool ==
  /\ call.fn = "_call_tool" /\ ~call.returned
  /\ call' = [call EXCEPT !.returned = TRUE,
                          !.out = _call_tool(call.env, call.arg.name, call.arg.arguments)]
  /\ UNCHANGED <<avars, kvars, mem>>

\* ------------------------------------------------------ specifications

Init == AdminInit /\ KernelInit /\ UtilInit

\* The admin service at work.
Spec == Init /\ [][Next]_vars

\* The scan passes of a service whose record writes and notifications can
\* fail.
FNext ==
  \/ ScanStart
  \/ LoadNext
  \/ Transition
  \/ TransitionFails
  \/ ScanEnd
FSpec == Init /\ [][FNext]_vars

\* run_loop (service.py:59-84): passes, and between them the lines typed at
\* its prompt.
LNext ==
  \/ ScanStart
  \/ LoadNext
  \/ Transition
  \/ ScanEnd
  \/ HandleCommand
LSpec == Init /\ [][LNext]_vars

\* The user agent at work, next to an admin service that is not running.
Idle ==
  /\ gates = AllAuto
  /\ manifest = [isFile |-> TRUE, skills |-> <<MemoryEntry>>]
  /\ \A p \in Proposals :
       /\ records[p]["proposal"].slug = <<"my", "-", "clock">>
       /\ records[p]["proposal"].description # <<>>

KInit == Init /\ Idle

\* The library functions, each applied to an input of its domain, next to
\* an admin service and a user agent that are not running.
UInit ==
  /\ AdminInit /\ KernelInit /\ Idle /\ mem = MemoryManager(FALSE)
  /\ call \in
       {Call("resolve_safe_write_path", p, links) :
          p \in WriteTargets, links \in LinkConfigs}
       \cup {Call("ensure_profile_dirs", id, {}) : id \in ProfileIds}
       \cup {Call("analyze_composition", caps, active) :
               caps \in ProposalCapabilities, active \in ActiveSkills}
       \cup {Call("analyze_code_safety", code, {}) : code \in Codes}
       \cup {Call("analyze_file", [file |-> file, proposal |-> [proposal |-> [capabilities |-> caps]]],
                   active) :
               file \in Files, caps \in ProposalCapabilities, active \in ActiveSkills}
       \cup {Call("_run_analysis", proposal,
                   [s \in Slugs |-> IF s = <<"my", "-", "clock">> THEN file ELSE NoFile]) :
               proposal \in Analysed, file \in Files}
       \cup {Call("_call_tool", [name |-> name, arguments |-> arguments],
                   <<[i \in DOMAIN memory |->
                        Tool(memory[i].name, "memory", i, memory[i].raises)],
                     [i \in DOMAIN clock |->
                        Tool(clock[i].name, "my-clock", i, clock[i].raises)]>>) :
               name \in {"recall", "now", "ghost"}, arguments \in {"fits", "misfit"},
               memory \in SeqsUpTo([name : {"recall", "now"}, raises : BOOLEAN], MaxTools),
               clock \in SeqsUpTo([name : {"recall", "now"}, raises : BOOLEAN], MaxTools)}

UNext ==
  \/ ResolveSafeWritePath
  \/ EnsureProfileDirs
  \/ AnalyzeComposition
  \/ AnalyzeCodeSafety
  \/ AnalyzeFile
  \/ RunAnalysis
  \/ CallTool

USpec == UInit /\ [][UNext]_vars

\* The main path and the background thread of a turn on one
\* MemoryManager, a statement of either at a time.
MNext ==
  \/ Retrieve
  \/ PathExists
  \/ ReadText
  \/ CacheAssign
  \/ CacheReturn
  \/ StoreAppend
  \/ StoreInvalidate

MInit ==
  /\ AdminInit /\ KernelInit /\ Idle /\ call = Call("", <<>>, {})
  /\ \E exists \in BOOLEAN : mem = MemoryManager(exists)

MSpec == MInit /\ [][MNext]_vars

KNext ==
  \/ Register
  \/ LoadFromManifest
  \/ Boot
  \/ Dispatch

KSpec == KInit /\ [][KNext]_vars

\* ------------------------------------------------------------ properties

ModuleOf(p) == _slug_to_module_name(records[p]["proposal"].slug)
Installed(m, d, module_name) ==
  HasModule(m, ModulePath(module_name)) \/ d[module_name].exists
Rejected == [status |-> "rejected", actor |-> "admin-service"]

\* C1: a scan-pass step in which a human gate is denied -- whatever the gate
\* configuration, the accepted gate included, and whatever was typed -- and
\* which leaves the proposal rejected, leaves no manifest entry and no
\* package directory for the proposal's module (none being there before).
C1_InstalledOnlyOnFullApproval ==
  [][(/\ ev'.op = "transition"
      /\ gates[ev'.target] = "human" /\ ev'.err = NoError /\ ~ev'.answer
      /\ records'[ev'.path]["status"] = "rejected"
      /\ ~Installed(manifest, dirs, ModuleOf(ev'.path)))
     => ~Installed(manifest', dirs', ModuleOf(ev'.path))]_vars

\* C2: while a record is accepted or rejected, no step of a scan pass changes
\* any of its fields, hands it to _process_proposal, runs a gate action for
\* it, asks for its approval or notifies about it.
C2_TerminalUntouchedByScan ==
  [][\A p \in Proposals :
       (records[p]["status"] \in {"accepted", "rejected"}
        /\ ev'.op \in {"scan_start", "load", "transition", "scan_end"})
       => /\ records'[p] = records[p]
          /\ (cur'.path = p => cur' = cur)
          /\ (ev'.path = p => ~ev'.acted /\ ~ev'.asked /\ ev'.notified = <<>>)]_vars

\* a pass has come to a rejected record and passed it over
C2_TerminalSkipped ==
  /\ ev.op = "load"
  /\ records[ev.path]["status"] = "rejected"
  /\ cur = NoCur

\* C3: when a write of the package fails after the manifest entry was added,
\* the install action raises the error, the manifest is what it was before
\* the install began, it has no entry for the module, and the module's
\* directory does not exist -- in the scan pass, and in an approve command
\* whose install failed on a write, for every record it could have installed.
C3_InstallRollsBack ==
  [][/\ (ev'.op = "transition" /\ ev'.target = "accepted" /\ ev'.err.kind = "OSError")
        => /\ ev'.fsFail # "none"
           /\ manifest' = manifest
           /\ ~Installed(manifest', dirs', ModuleOf(ev'.path))
           /\ records'[ev'.path]["rejection_reason_type"] = "OSError"
     /\ (ev'.op = "approve" /\ ev'.logged # <<>>)
        => /\ ev'.path = 0 => (manifest' = manifest /\ dirs' = dirs)
           /\ \A p \in Proposals, fsFail \in FsFailures \ {"none"} :
                LET i == _install_skill(records[p], manifest, dirs, impl, fsFail)
                IN (i.err # NoError /\ i.err.kind # "RuntimeError")
                   => /\ i.err.kind = "OSError"
                      /\ i.manifest = manifest
                      /\ ~Installed(i.manifest, i.dirs, ModuleOf(p))]_vars

\* an install of the scan pass has failed on a write
C3_WriteFailed ==
  /\ ev.op = "transition" /\ ev.target = "accepted"
  /\ ev.err.kind = "OSError" /\ ev.fsFail = "copy2"
  /\ records[ev.path]["status"] = "rejected"

\* C4: for an event of a type mapped to a capability token and any source,
\* registered or not, dispatch invokes a handler only if the registry holds a
\* skill named as the source whose capabilities contain the token.
C4_HandlerOnlyForCapableSource ==
  (kev.op = "dispatch" /\ kev.event.type \in DOMAIN _EVENT_CAPABILITIES
   /\ kev.called # <<>>)
  => \E i \in DOMAIN registry.skills :
        /\ registry.skills[i].name = kev.event.source
        /\ _EVENT_CAPABILITIES[kev.event.type] \in registry.skills[i].capabilities

\* C5: a dispatch whose source is registered and lacks the token of the
\* event's type returns the denied result, raises nothing and invokes no
\* handler.
C5_MissingCapabilityDenied ==
  \A i \in DOMAIN registry.skills :
    (/\ kev.op = "dispatch"
     /\ kev.event.type \in DOMAIN _EVENT_CAPABILITIES
     /\ registry.skills[i].name = kev.event.source
     /\ _EVENT_CAPABILITIES[kev.event.type] \notin registry.skills[i].capabilities)
    => /\ kev.result = SkillResult(FALSE, <<"Missing capability: ",
                                            _EVENT_CAPABILITIES[kev.event.type]>>)
       /\ kev.err = NoError
       /\ kev.called = <<>>

\* a skill without capabilities has dispatched memory_store while the memory
\* skill, which handles it, is registered
C5_DeniedWithHandlers ==
  /\ kev.op = "dispatch"
  /\ kev.event = [type |-> "memory_store", source |-> "my-clock"]
  /\ ~get(registry, "my-clock").none
  /\ ~get(registry, "memory").none
  /\ ~kev.result.success

\* C6: a record's status becomes removed only by remove_skill on an accepted
\* record: whenever a step sets or re-sets the status removed, the record was
\* accepted before the step.
C6_RemovedOnlyFromAccepted ==
  [][\A p \in Proposals :
       (records'[p]["status"] = "removed" /\ records'[p] # records[p])
       => (ev'.op = "remove" /\ records[p]["status"] = "accepted")]_vars

\* C7: the manifest never holds two entries with the same module path,
\* whatever installs, approvals and removals have run.
C7_ManifestModulesUnique ==
  \A i, j \in DOMAIN manifest.skills :
     manifest.skills[i].module = manifest.skills[j].module => i = j

\* an install was refused because the manifest already lists the module
C7_DuplicateRefused ==
  /\ ev.op \in {"transition", "approve"}
  /\ ev.err.kind = "RuntimeError"
  /\ ev.err.msg[1] = "already exists in the manifest"

\* C8: when the gate action of a transition raises, the same step leaves the
\* record rejected, with the reason 'Action failed: <message>', the error's
\* type name as reason type and exactly one more history entry, a rejected
\* one; the approval channel is not consulted and nothing more is attempted
\* on the record.
C8_ActionErrorRejects ==
  [][(ev'.op = "transition" /\ ev'.err # NoError)
     => LET after == records'[ev'.path]
        IN /\ after["status"] = "rejected"
           /\ after["rejection_reason"] = <<"Action failed: ">> \o ev'.err.msg
           /\ "rejection_reason_type" \in DOMAIN after
           /\ after["rejection_reason_type"] = ev'.err.kind
           /\ after["history"] = Append(records[ev'.path]["history"], Rejected)
           /\ ~ev'.asked
           /\ ~Pending']_vars

\* the action of a transition whose gate is human has raised
C8_ActionRaisedAtHumanGate ==
  /\ ev.op = "transition" /\ ev.err # NoError
  /\ gates[ev.target] = "human"
  /\ records[ev.path]["status"] = "rejected"

Affirmative == {"a", "approve", "y", "yes"}

\* C9: when the action of a transition succeeds, the gate is human and the
\* approval channel does not approve, the record is rejected with the reason
\* 'Rejected at <target> gate' and no reason type, its history gains the
\* rejected entry only (never the target's), and no later transition is
\* attempted on it; the channel does not approve when the input ends or is
\* interrupted, nor unless an affirmative line was typed.
C9_GateDenialRejects ==
  [][/\ (/\ ev'.op = "transition" /\ ev'.err = NoError
         /\ gates[ev'.target] = "human" /\ ~ev'.answer)
        => LET after == records'[ev'.path]
           IN /\ ev'.asked /\ ~ev'.approved
              /\ after["status"] = "rejected"
              /\ after["rejection_reason"] = <<"Rejected at ", ev'.target, " gate">>
              /\ "rejection_reason_type" \notin DOMAIN after
              /\ after["history"] = Append(records[ev'.path]["history"], Rejected)
              /\ ~Pending'
     /\ (ev'.op = "transition" /\ ev'.asked)
        => \A typed \in TypedInputs :
             /\ (typed = <<>> \/ Head(typed) = "^C") => ~request_approval(typed)
             /\ request_approval(typed)
                  => \E i \in DOMAIN typed : StripLower(typed[i]) \in Affirmative]_vars

\* a human gate was denied
C9_GateDenied ==
  /\ ev.op = "transition" /\ ev.asked /\ ~ev.answer
  /\ ev.target = "human-review"
  /\ records[ev.path]["status"] = "rejected"

DeclaresOneSkill(code) ==
  Cardinality({i \in DOMAIN code : IsSkillClass(code[i])}) = 1
NothingForbidden(code) ==
  \A i \in DOMAIN code :
     /\ code[i].kind # "garbage"
     /\ code[i].kind \in {"import", "from"} => code[i].name[1] \notin FORBIDDEN_IMPORTS
     /\ code[i].kind = "call" => code[i].name[1] \notin FORBIDDEN_BUILTINS
     /\ code[i].kind = "str" => Range(code[i].name) \cap SuspiciousPatterns = {}
GeneratesCleanSkill(llm_chat) ==
  /\ llm_chat # NoLLM /\ ~llm_chat.raises /\ llm_chat.prefix = ""
  /\ DeclaresOneSkill(llm_chat.body) /\ NothingForbidden(llm_chat.body)
FullHistory ==
  <<[status |-> "new", actor |-> "skill-proposer"]>>
  \o [i \in DOMAIN Targets |-> [status |-> Targets[i], actor |-> "admin-service"]]

\* C10: with every gate auto, a manifest file in place and no write fault, a
\* new record with all required fields, whose module has neither a package
\* nor a manifest entry and for which the generator returns a source with one
\* BaseSkill subclass and nothing forbidden, advances at every transition of
\* the pass that picks it up: each step sets the next status and appends its
\* history entry, the pass goes on with the same record until it is accepted,
\* and then its history is new, discovered, implementation, agent-review,
\* human-review, accepted and the manifest holds its module with the class.
C10_HappyPath ==
  [][(/\ ev'.op = "transition" /\ gates = AllAuto
      /\ cur.proposal["proposal"].description # <<>>
      /\ (ev'.target = "implementation" => GeneratesCleanSkill(ev'.llm_chat))
      /\ (ev'.target \in {"agent-review", "human-review", "accepted"}
            => /\ ContextOf(cur.proposal).code_path = cur.proposal["proposal"].slug
               /\ impl[cur.proposal["proposal"].slug].exists
               /\ DeclaresOneSkill(impl[cur.proposal["proposal"].slug].content)
               /\ NothingForbidden(impl[cur.proposal["proposal"].slug].content))
      /\ ~Installed(manifest, dirs, ModuleOf(ev'.path))
      /\ manifest.isFile /\ ev'.fsFail = "none")
     => LET after == records'[ev'.path]
            slug == after["proposal"].slug
        IN /\ after["status"] = ev'.target
           /\ after["history"] = Append(records[ev'.path]["history"],
                                        [status |-> ev'.target, actor |-> "admin-service"])
           /\ (ev'.target = "implementation"
                 => /\ impl'[slug] = File(ev'.llm_chat.body)
                    /\ ContextOf(cur'.proposal).code_path = slug)
           /\ (ev'.target # "accepted"
                 => /\ Pending' /\ cur'.path = ev'.path
                    /\ ~Installed(manifest', dirs', ModuleOf(ev'.path)))
           /\ (ev'.target = "accepted"
                 => /\ after["history"] = FullHistory
                    /\ \E i \in DOMAIN manifest'.skills :
                          manifest'.skills[i] =
                            Entry(ModulePath(ModuleOf(ev'.path)),
                                  _extract_class_name(impl[slug]).class_name)
                    /\ dirs'[ModuleOf(ev'.path)].exists)]_vars

\* a record has gone from new to accepted through auto gates
C10_AcceptedInOnePass ==
  /\ ev.op = "transition" /\ ev.target = "accepted" /\ gates = AllAuto
  /\ records[ev.path]["status"] = "accepted"
  /\ records[ev.path]["history"] = FullHistory
  /\ HasModule(manifest, ModulePath(ModuleOf(ev.path)))

\* s holds t as a run of consecutive elements
Contains(s, t) ==
  \E k \in 0..(Len(s) - Len(t)) : SubSeq(s, k + 1, k + Len(t)) = t
\* the source parses and line i imports a forbidden module
ForbiddenImportAt(code, i) ==
  /\ \A j \in DOMAIN code : code[j].kind # "garbage"
  /\ code[i].kind \in {"import", "from"}
  /\ code[i].name # <<>> /\ code[i].name[1] \in FORBIDDEN_IMPORTS
ForbiddenImportMessage(code, i) ==
  <<IF code[i].kind = "import" THEN "Forbidden import: " ELSE "Forbidden import from: ">>
  \o code[i].name \o <<"line", ToString(i)>>
StatusesOf(data) == {data["history"][i].status : i \in DOMAIN data["history"]}

\* C11: with all gates auto, a generated source that holds a forbidden import
\* is written and the record reaches implementation; the agent-review
\* transition that follows in the same pass rejects it, with a reason that
\* holds the analyzer's forbidden-import message and its line number; the
\* record has been through implementation but not agent-review, human-review
\* or accepted, and the manifest and the packages are as before.
C11_ForbiddenImportRejected ==
  [][/\ (/\ ev'.op = "transition" /\ ev'.target = "implementation"
         /\ gates = AllAuto
         /\ ev'.llm_chat # NoLLM /\ ~ev'.llm_chat.raises /\ ev'.llm_chat.prefix = ""
         /\ \E i \in DOMAIN ev'.llm_chat.body : ForbiddenImportAt(ev'.llm_chat.body, i))
        => /\ records'[ev'.path]["status"] = "implementation"
           /\ impl'[cur.proposal["proposal"].slug] = File(ev'.llm_chat.body)
           /\ ContextOf(cur'.proposal).code_path = cur.proposal["proposal"].slug
           /\ Pending' /\ cur'.path = ev'.path
     /\ (/\ ev'.op = "transition" /\ ev'.target = "agent-review"
         /\ ContextOf(cur.proposal).code_path # <<>>)
        => LET after == records'[ev'.path]
               code == impl[ContextOf(cur.proposal).code_path].content
           IN \A i \in DOMAIN code :
                ForbiddenImportAt(code, i)
                => /\ after["status"] = "rejected"
                   /\ Contains(after["rejection_reason"], ForbiddenImportMessage(code, i))
                   /\ "implementation" \in StatusesOf(after)
                   /\ StatusesOf(after) \cap {"agent-review", "human-review", "accepted"} = {}
                   /\ manifest' = manifest /\ dirs' = dirs
                   /\ ~Pending']_vars

\* a pass with auto gates has rejected a source that imports subprocess
C11_ImportRejectedAtReview ==
  /\ ev.op = "transition" /\ ev.target = "agent-review" /\ gates = AllAuto
  /\ impl[records[ev.path]["proposal"].slug] = File(ImportCode)
  /\ records[ev.path]["status"] = "rejected"
  /\ Contains(records[ev.path]["rejection_reason"],
              <<"Forbidden import: ", "subprocess", "line", "1">>)

CoreIdentifiers == {<<"cli">>, <<"reasoning">>, <<"memory">>, <<"proposer">>}

\* C12: remove_skill on a record whose module name is a core identifier
\* raises an error and leaves the manifest, every package directory and
\* every proposal record as they were.
C12_CoreSkillNotRemoved ==
  [][(/\ ev'.op = "remove" /\ ev'.path # 0
      /\ ModuleOf(ev'.path) \in CoreIdentifiers)
     => /\ ev'.err.kind = "ValueError"
        /\ manifest' = manifest
        /\ dirs' = dirs
        /\ records' = records]_vars

\* remove was asked for the record whose slug is memory, a shipped skill
C12_CoreRemovalRefused ==
  /\ ev.op = "remove" /\ ev.path # 0 /\ ev.err # NoError
  /\ records[ev.path]["proposal"].slug = <<"memory">>
  /\ dirs[<<"memory">>].exists
  /\ HasModule(manifest, ModulePath(<<"memory">>))

\* C13: approve without --force that comes to a record whose status is not
\* human-review, or whose argument matches no record, raises an error and
\* changes nothing: the manifest, the package directories and every record
\* are as before, nothing is notified, and where the record is the only
\* match no install was attempted.
C13_ApproveNeedsHumanReview ==
  [][(/\ ev'.op = "approve" /\ ev'.target # "--force"
      /\ \/ ev'.matched = {}
         \/ (ev'.path # 0 /\ records[ev'.path]["status"] # "human-review"))
     => /\ ev'.err.kind = "ValueError"
        /\ manifest' = manifest
        /\ dirs' = dirs
        /\ records' = records
        /\ ev'.notified = <<>>
        /\ (ev'.matched \subseteq {ev'.path} => ev'.logged = <<>>)]_vars

\* approve without --force was refused for a record that has a generated
\* implementation and is not in human-review
C13_ApproveRefused ==
  /\ ev.op = "approve" /\ ev.target = "" /\ ev.path # 0
  /\ ev.err.kind = "ValueError"
  /\ records[ev.path]["status"] = "rejected"
  /\ impl[records[ev.path]["proposal"].slug].exists
  /\ ~Installed(manifest, dirs, ModuleOf(ev.path))

\* the manifest names the module and its package holds both files
FullyInstalled(m, d, module_name) ==
  /\ HasModule(m, ModulePath(module_name))
  /\ d[module_name] = [exists |-> TRUE, files |-> {"skill.py", "__init__.py"}]
AcceptedByAdmin == [status |-> "accepted", actor |-> "admin-cli"]

\* C14: approve --force that ends without an error has, whatever the status
\* of the record it came to, installed the module in this very step (manifest
\* entry and package with both files, none being there before) and leaves
\* the stored record as it was but for status accepted and one more history
\* entry (accepted, admin-cli), the other records untouched; one that ends
\* with an error leaves every record as it was; and no approve command turns
\* a record accepted without its module being fully installed.
C14_ForceInstallsThenAccepts ==
  [][(ev'.op = "approve")
     => /\ (ev'.target = "--force" /\ ev'.path # 0 /\ ev'.err = NoError)
           => /\ ~dirs[ModuleOf(ev'.path)].exists
              /\ FullyInstalled(manifest', dirs', ModuleOf(ev'.path))
              /\ records' = [records EXCEPT ![ev'.path] =
                               [@ EXCEPT !["status"] = "accepted",
                                         !["history"] = Append(@, AcceptedByAdmin)]]
              /\ ev'.notified = <<"accepted">>
        /\ (ev'.target = "--force" /\ ev'.err # NoError) => records' = records
        /\ \A p \in Proposals :
             (records'[p] # records[p] /\ records'[p]["status"] = "accepted")
             => /\ ev'.err = NoError /\ p = ev'.path
                /\ FullyInstalled(manifest', dirs', ModuleOf(p))]_vars

\* approve --force has installed and accepted a record that was rejected
C14_ForcedFromRejected ==
  /\ ev.op = "approve" /\ ev.target = "--force" /\ ev.path # 0 /\ ev.err = NoError
  /\ records[ev.path]["status"] = "accepted"
  /\ Len(records[ev.path]["history"]) >= 2
  /\ records[ev.path]["history"][Len(records[ev.path]["history"]) - 1].status = "rejected"
  /\ FullyInstalled(manifest, dirs, ModuleOf(ev.path))

\* C15: an approve command in which an install failed while writing the
\* package ends with an error for its caller.
C15_InstallErrorReachesCaller ==
  [][(ev'.op = "approve" /\ ev'.logged # <<>>) => ev'.err # NoError]_vars

\* C16: in a pass, a record whose processing raises (the write of the record
\* or the notification after it fails) and a record that cannot be loaded
\* end only their own processing: the pass goes on with the same paths left
\* to visit, raises nothing, ends only when every path of the directory was
\* visited, and takes up every record it comes to that is readable and in a
\* pipeline status.
C16_FailureDoesNotAbortPass ==
  [][/\ (ev'.op = "fail")
        => /\ scanning' /\ queue' = queue /\ ~Pending'
           /\ ev'.err = NoError /\ ev'.logged # <<>>
     /\ (ev'.op = "load" /\ records[ev'.path] = Unreadable)
        => scanning' /\ queue' = Tail(queue) /\ ~Pending' /\ ev'.err = NoError
     /\ (ev'.op = "load" /\ records[ev'.path] # Unreadable
         /\ records[ev'.path]["status"] \in PipelineStatuses)
        => Pending' /\ cur'.path = ev'.path
     /\ (ev'.op = "scan_start") => Range(queue') = Proposals
     /\ (scanning /\ ~scanning')
        => queue = <<>> /\ ev'.op = "scan_end" /\ ev'.err = NoError]_vars

\* the processing of a record has failed while a readable record in a
\* pipeline status is still to be visited in the pass
C16_FailedWithRecordsLeft ==
  /\ ev.op = "fail" /\ scanning /\ queue # <<>>
  /\ records[Head(queue)] # Unreadable
  /\ records[Head(queue)]["status"] \in PipelineStatuses

\* the names of the registered skills that list the event's type and are not
\* its source, in registration order
Eligible(reg, event) ==
  LET Listens(sk) == event.type \in Range(sk.handles_events) /\ sk.name # event.source
      handlers == SelectSeq(reg.skills, Listens)
  IN [i \in DOMAIN handlers |-> handlers[i].name]
\* the capability check does not block the event
PassesCheck(reg, event) ==
  ~ \E i \in DOMAIN reg.skills :
       /\ event.type \in DOMAIN _EVENT_CAPABILITIES
       /\ reg.skills[i].name = event.source
       /\ _EVENT_CAPABILITIES[event.type] \notin reg.skills[i].capabilities
\* the place in the invoked handlers, after place from, of the first that
\* returns a result; 0 when there is none
FirstResultAfter(called, outcome, from) ==
  LET hits == {i \in DOMAIN called : i > from /\ outcome[called[i]] = "result"}
  IN IF hits = {} THEN 0 ELSE CHOOSE i \in hits : \A j \in hits : i <= j

\* C17: a dispatch that passes the capability check invokes, in registration
\* order, the registered skills that list the event's type, leaving out the
\* source, up to and including the first whose handler returns a result, and
\* returns that result; it invokes all of them and returns None when no
\* handler returns a result.
C17_RoutesInRegistrationOrder ==
  (kev.op = "dispatch" /\ PassesCheck(registry, kev.event))
  => LET names == Eligible(registry, kev.event)
         k == FirstResultAfter(kev.called, kev.outcome, 0)
     IN /\ Len(kev.called) <= Len(names)
        /\ kev.called = (IF k = 0 THEN names ELSE SubSeq(names, 1, k))
        /\ kev.result = (IF k = 0 THEN NoResult
                         ELSE SkillResult(TRUE, <<"handled by ", names[k]>>))
        /\ kev.event.source \notin Range(kev.called)
        /\ kev.err = NoError

\* memory_store from the memory skill itself went to the two other skills
\* that handle it, the first returning None and the second a result
C17_SecondHandlerAnswers ==
  /\ kev.op = "dispatch"
  /\ kev.event = [type |-> "memory_store", source |-> "memory"]
  /\ Len(registry.skills) = 3 /\ registry.skills[2].name = "memory"
  /\ Len(kev.called) = 2
  /\ kev.outcome[kev.called[1]] = "none"
  /\ kev.result = SkillResult(TRUE, <<"handled by ", kev.called[2]>>)

\* C18: in a dispatch that passes the capability check, a handler that is
\* invoked and raises is logged and nothing is raised to the caller; the
\* handler after it in registration order, if there is one, is invoked too;
\* and the dispatch returns the result of the first handler after it that
\* returns one, or None when there is none.
C18_HandlerFailureIsolated ==
  (kev.op = "dispatch" /\ PassesCheck(registry, kev.event))
  => LET names == Eligible(registry, kev.event)
     IN \A i \in DOMAIN kev.called :
          (kev.outcome[kev.called[i]] = "raise")
          => LET k == FirstResultAfter(kev.called, kev.outcome, i)
             IN /\ kev.err = NoError
                /\ kev.called[i] \in Range(kev.failed)
                /\ i < Len(names)
                   => Len(kev.called) > i /\ kev.called[i + 1] = names[i + 1]
                /\ kev.result = (IF k = 0 THEN NoResult
                                 ELSE SkillResult(TRUE, <<"handled by ", kev.called[k]>>))

\* of three handlers the first raised, the second returned None and the
\* third returned the result the dispatch gave back
C18_ThirdHandlerAnswersAfterFailure ==
  /\ kev.op = "dispatch" /\ kev.event.source = "ghost"
  /\ Len(kev.called) = 3
  /\ kev.failed = <<kev.called[1]>>
  /\ kev.outcome[kev.called[2]] = "none"
  /\ kev.result = SkillResult(TRUE, <<"handled by ", kev.called[3]>>)

\* C19: boot leaves the registry frozen, with the skills it had, and calls
\* on_load and run on skills of the frozen registry only; and once the
\* registry is frozen no step changes it: register raises, and
\* load_from_manifest registers none of its entries, logs each of them and
\* raises nothing.
C19_FrozenRegistryIsFixed ==
  [][/\ (kev'.op = "boot")
        => /\ registry'.frozen /\ registry'.skills = registry.skills
           /\ \A i \in DOMAIN kev'.loaded :
                i \in DOMAIN registry'.skills /\ registry'.skills[i].name = kev'.loaded[i]
           /\ kev'.driver # "" => ~get(registry', kev'.driver).none
     /\ (kev'.op = "register" /\ registry.frozen)
        => kev'.err.kind = "RuntimeError"
     /\ (kev'.op = "load_from_manifest" /\ registry.frozen)
        => kev'.failed = kev'.entries /\ kev'.err = NoError
     /\ registry.frozen => registry' = registry]_vars

\* after boot, a manifest naming a skill that is not registered was loaded
C19_LoadAfterFreeze ==
  /\ kev.op = "load_from_manifest" /\ registry.frozen /\ ctx
  /\ \E i \in DOMAIN kev.entries : get(registry, kev.entries[i]).none

\* C20: a boot with no registered skill that declares user:input raises, calls
\* no on_load and runs no driver; a boot with one or more runs one driver,
\* the first of them in registration order, after on_load of every
\* registered skill in registration order.
C20_DriverIsFirstCommunicationSkill ==
  (kev.op = "boot")
  => LET declaring == {i \in DOMAIN registry.skills :
                         "user:input" \in registry.skills[i].capabilities}
     IN IF declaring = {}
          THEN /\ kev.err.kind = "RuntimeError"
               /\ kev.loaded = <<>> /\ kev.driver = "" /\ ~ctx
          ELSE /\ kev.err = NoError
               /\ \E i \in declaring :
                    /\ \A j \in declaring : i <= j
                    /\ kev.driver = registry.skills[i].name
               /\ kev.loaded = [i \in DOMAIN registry.skills |-> registry.skills[i].name]

\* two communication skills are registered, the later-named cli second, and
\* boot ran the first
C20_SecondDriverNotRun ==
  /\ kev.op = "boot" /\ kev.driver = "my-chat"
  /\ ~get(registry, "cli").none
  /\ Len(kev.loaded) = 3

\* C21: resolve_safe_write_path raises PathViolationError when the
\* resolution of data_root/p (of p itself when p is absolute) is not under
\* data_root, and when it is data_root or its first segment below data_root
\* is neither profiles nor proposals; otherwise it returns that resolution,
\* which is data_root/profiles, data_root/proposals or below one of them.
C21_WriteTargetStaysInAllowedDirs ==
  (call.fn = "resolve_safe_write_path" /\ call.returned)
  => LET root == DataDir
         lexical == IF call.arg.absolute THEN call.arg.parts ELSE root \o call.arg.parts
         target == Walk(<<>>, lexical, call.env)
         inside == Len(target) >= Len(root) /\ SubSeq(target, 1, Len(root)) = root
         allowed == inside /\ Len(target) > Len(root)
                    /\ target[Len(root) + 1] \in {"profiles", "proposals"}
     IN /\ ~allowed => call.out.err.kind = "PathViolationError"
        /\ allowed => call.out = [err |-> NoError, path |-> target]
        /\ call.out.err = NoError
           => \E d \in {"profiles", "proposals"} :
                 SubSeq(call.out.path, 1, Len(root) + 1) = Append(root, d)

\* a target with a .. segment that stays inside profiles was accepted
C21_DotDotInsideAccepted ==
  /\ call.fn = "resolve_safe_write_path" /\ call.returned
  /\ call.arg = Path(FALSE, <<"proposals", "..", "profiles">>)
  /\ call.out = [err |-> NoError, path |-> <<"data", "profiles">>]

C23_ProfileIdAcceptedIffWellFormed ==
  (call.fn = "ensure_profile_dirs" /\ call.returned)
  => LET id == call.arg
         wellFormed == /\ Len(id) \in 1..64
                       /\ id[1] \in {"a", "7"}
                       /\ \A i \in 1..Len(id) : id[i] \in {"a", "7", "-", "_"}
     IN /\ wellFormed <=> call.out.err = NoError
        /\ ~wellFormed => call.out.err.kind = "ValueError" /\ call.out.created = {}

\* C24: for a proposal declaring memory:write and user:input, next to the
\* active skills memory {memory:write} and web {network:read},
\* analyze_composition returns exactly one warning, the overlap with the
\* first skill, and none for the second.
C24_ExactlyOneWarning ==
  ( /\ call.fn = "analyze_composition" /\ call.returned
    /\ call.arg = <<"memory:write", "user:input">>
    /\ call.env = <<[name |-> "memory", caps |-> <<"memory:write">>],
                    [name |-> "web", caps |-> <<"network:read">>]>> )
  => /\ Len(call.out) = 1
     /\ call.out[1][2] = "memory" /\ call.out[1][3] = {"memory:write"}

\* C25: analyze_file's result is unclean if and only if the file cannot be
\* read or the safety scan of its text reports an issue, whatever the
\* composition warnings; and the agent-review action, whose analysis is clean
\* and has composition warnings, raises nothing.
C25_CompositionWarningsNeverBlock ==
  /\ (call.fn = "analyze_file" /\ call.returned)
     => LET file == call.arg.file
        IN /\ ~call.out.clean
                <=> (~file.exists \/ analyze_code_safety(file.content) # <<>>)
           /\ file.exists
                => call.out.composition_warnings
                     = analyze_composition(call.arg.proposal["proposal"].capabilities,
                                           call.env)
  /\ (call.fn = "_run_analysis" /\ call.returned)
     => LET analysis == ContextOf(call.out.proposal).analysis
        IN (analysis.present /\ analysis.clean /\ analysis.composition_warnings # <<>>)
             => call.out.err = NoError

\* the agent-review action let a proposal with a composition warning pass
C25_PassedWithWarnings ==
  /\ call.fn = "_run_analysis" /\ call.returned /\ call.out.err = NoError
  /\ ContextOf(call.out.proposal).analysis.clean
  /\ ContextOf(call.out.proposal).analysis.composition_warnings # <<>>

\* C26: analyze_code_safety reports at least one issue when the source
\* parses and holds an import or from-import whose top-level module is
\* forbidden, or a call whose function name is a forbidden builtin; exactly
\* one issue when the source does not parse; and none when it parses and
\* holds no such import, no such call and no string literal with
\* '__import__', 'eval(' or 'exec('.
C26_SafetyScanFindsForbiddenPatterns ==
  (call.fn = "analyze_code_safety" /\ call.returned)
  => LET code == call.arg
         parses == \A i \in DOMAIN code : code[i].kind # "garbage"
         import(n) == /\ n.kind \in {"import", "from"}
                      /\ n.name # <<>> /\ n.name[1] \in FORBIDDEN_IMPORTS
         builtin(n) == /\ n.kind = "call"
                       /\ n.name # <<>> /\ n.name[Len(n.name)] \in FORBIDDEN_BUILTINS
         pattern(n) == /\ n.kind = "str"
                       /\ \E k \in DOMAIN n.name : n.name[k] \in {"__import__", "eval(", "exec("}
     IN /\ (parses /\ \E i \in DOMAIN code : import(code[i]) \/ builtin(code[i]))
             => Len(call.out) >= 1
        /\ ~parses => Len(call.out) = 1
        /\ (parses /\ \A i \in DOMAIN code :
                         ~import(code[i]) /\ ~builtin(code[i]) /\ ~pattern(code[i]))
             => call.out = <<>>

\* a source that imports a submodule of a forbidden module was scanned
C26_SubmoduleImportScanned ==
  /\ call.fn = "analyze_code_safety" /\ call.returned
  /\ call.arg = <<Line("import", <<"os", "path">>, "")>>
  /\ Len(call.out) = 1

\* C27: the agent-review action of a proposal that declares memory:write,
\* while the memory skill (which holds memory:write) is in the manifest,
\* leaves a capability-overlap warning in the proposal's analysis.
C27_OverlapWithActiveSkillWarned ==
  [][(/\ ev'.op = "transition" /\ ev'.target = "agent-review"
      /\ ContextOf(cur'.proposal).analysis.present
      /\ HasModule(manifest, ModulePath(<<"memory">>))
      /\ \E i \in DOMAIN cur.proposal["proposal"].capabilities :
            cur.proposal["proposal"].capabilities[i] = "memory:write")
     => \E i \in DOMAIN ContextOf(cur'.proposal).analysis.composition_warnings :
           ContextOf(cur'.proposal).analysis.composition_warnings[i][1]
             = "Proposed skill shares capabilities with"]_vars

\* C28: when the generation collaborator's text opens with the sentinel
\* INFEASIBLE: in whatever case, the step writes no implementation file, the
\* pass goes on, and the proposal is left rejected, in memory and on disk,
\* with a rejection_reason that holds the collaborator's reason text and the
\* rejection_reason_type InfeasibleProposalError.
C28_InfeasibleSignalRejects ==
  [][(/\ ev'.op = "transition" /\ ev'.target = "implementation"
      /\ ev'.llm_chat = Response("Infeasible:", FALSE, <<" ", "needs a clock device", " ">>))
     => /\ impl' = impl
        /\ scanning' /\ ~Pending' /\ queue' = queue
        /\ \A data \in {cur'.proposal, records'[ev'.path]} :
              /\ data["status"] = "rejected"
              /\ Contains(data["rejection_reason"], <<"needs a clock device">>)
              /\ data["rejection_reason_type"] = "InfeasibleProposalError"]_vars

\* the collaborator answered a proposal with the infeasible signal
C28_InfeasibleAnswered ==
  /\ ev.op = "transition" /\ ev.target = "implementation"
  /\ ev.llm_chat.prefix = "Infeasible:"
  /\ ev.err.kind = "InfeasibleProposalError"
  /\ records[ev.path]["status"] = "rejected"

\* C29: a retrieval that starts after a store has returned is computed from
\* an entry list that holds the stored entry, whatever the interleaving of
\* the main path with the background thread.
C29_RetrievalSeesCompletedStores ==
  (mem.main = "idle" /\ mem.retrieved > 0 /\ mem.after > 0)
  => /\ ~mem.result.none
     /\ \A e \in 1..mem.after : \E i \in DOMAIN mem.result.list : mem.result.list[i] = e

\* C30: a remove command typed between two passes of the polling loop does
\* what remove_skill does to the manifest, the packages and the records.
C30_LoopRemoveRemoves ==
  [][(ev'.op = "command" /\ ev'.line[1] = "remove")
     => \E order \in Perms(Matching(ev'.line[2])) :
          \E r \in {remove_skill(order, ev'.line[2], records, manifest, dirs)} :
             manifest' = r.manifest /\ dirs' = r.dirs /\ records' = r.records]_vars

\* C31: Kernel._call_tool never raises: it runs the first tool of the given
\* name, in the order of the registered skills and of each skill's list, and
\* returns what it returns, or 'Tool error: <message>' when it raises; with
\* no tool of that name it returns 'Unknown tool: <name>'.
C31_CallToolReturnsStrings ==
  (call.fn = "_call_tool" /\ call.returned) =>
    LET name == call.arg.name
        listed == Concat(call.env)
        hits == {i \in DOMAIN listed : listed[i].name = name}
        first == listed[CHOOSE i \in hits : \A j \in hits : i <= j]
    IN /\ call.out.err = NoError
       /\ hits = {} => call.out.value = <<"Unknown tool: ", name>>
       /\ (hits # {} /\ call.arg.arguments = "fits" /\ ~first.raises) =>
            call.out.value = <<"done by ", first.skill, ToString(first.place)>>
       /\ (hits # {} /\ call.arg.arguments = "fits" /\ first.raises) =>
            call.out.value = <<"Tool error: ", "failed in ", first.skill>>
       /\ (hits # {} /\ call.arg.arguments = "misfit") =>
            call.out.value = <<"Tool error: ", "unexpected keyword argument">>

\* The first tool of the name raises and a later skill has a sound tool of
\* the same name: the error string is returned.
C31_FirstOfTwoRaises ==
  /\ call.fn = "_call_tool" /\ call.returned /\ call.arg.arguments = "fits"
  /\ Len(call.env[1]) > 0 /\ call.env[1][1].name = call.arg.name /\ call.env[1][1].raises
  /\ \E i \in DOMAIN call.env[2] :
       call.env[2][i].name = call.arg.name /\ ~call.env[2][i].raises
  /\ call.out.value = <<"Tool error: ", "failed in ", "memory">>

\* C32: a transition of a scan pass sets the record's status either to the
\* one that follows its status in new, discovered, implementation,
\* agent-review, human-review, accepted, or to rejected, and in the history
\* it leaves, every entry of actor admin-service is rejected or holds the
\* status that follows the status of the entry before it.
C32_ScanAdvancesOneStatusOrRejects ==
  [][ev'.op = "transition" =>
       LET Place(st) == CHOOSE i \in DOMAIN _STATUSES : _STATUSES[i] = st
           Follows(a, b) == a \in PipelineStatuses /\ Place(b) = Place(a) + 1
           before == records[ev'.path]
           after == records'[ev'.path]
           history == after["history"]
       IN /\ before["status"] = cur.proposal["status"]
          /\ after["status"] = cur'.proposal["status"]
          /\ after["status"] = "rejected" \/ Follows(before["status"], after["status"])
          /\ \A p \in Proposals \ {ev'.path} : records'[p] = records[p]
          /\ \A k \in DOMAIN history :
               history[k].actor = "admin-service" =>
                 \/ history[k].status = "rejected"
                 \/ k > 1 /\ Follows(history[k - 1].status, history[k].status)]_vars

\* a record went through every status up to human-review and was then
\* rejected at the last transition
C32_RejectedAfterHumanReview ==
  /\ ev.op = "transition"
  /\ [i \in DOMAIN records[ev.path]["history"] |-> records[ev.path]["history"][i].status]
       = <<"new", "discovered", "implementation", "agent-review", "human-review", "rejected">>

\* C33: a record's history only grows, by one entry at a time and at its
\* end: a step of a pass or a command that changes a record's status or its
\* history (a transition, a rejection, approve, remove) leaves the entries
\* that were there as they were and appends one entry, which holds the
\* record's new status; the last entry of every record's history holds the
\* record's status.
C33_HistoryAppendOnly ==
  [][\A p \in Proposals :
       LET old == records[p]["history"]
           new == records'[p]["history"]
       IN /\ new[Len(new)].status = records'[p]["status"]
          /\ \/ new = old /\ records'[p]["status"] = records[p]["status"]
             \/ /\ Len(new) = Len(old) + 1
                /\ SubSeq(new, 1, Len(old)) = old
                /\ new[Len(new)].actor =
                     IF ev'.op = "transition" THEN "admin-service" ELSE "admin-cli"
                /\ ev'.op \in {"transition", "approve", "remove"}
                /\ ev'.path = p]_vars

\* a record that a pass had advanced was removed by a command, and its
\* history holds the entries of both
C33_RemovedAfterPass ==
  /\ ev.op = "remove" /\ ev.err = NoError
  /\ records[ev.path]["status"] = "removed"
  /\ Len(records[ev.path]["history"]) > 2
  /\ records[ev.path]["history"][2].actor = "admin-service"

\* C34: analyze_composition returns one overlap warning for each active
\* skill whose capabilities meet the proposed ones, naming the skill and the
\* shared capabilities, none for an active skill that shares none, and one
\* more warning exactly when the proposed capabilities hold both user:input
\* and memory:write, whatever the active skills are; it returns nothing
\* else.
C34_WarningPerOverlapAndForPair ==
  (call.fn = "analyze_composition" /\ call.returned) =>
    LET proposed == {call.arg[i] : i \in DOMAIN call.arg}
        shared(a) == proposed \cap {a.caps[i] : i \in DOMAIN a.caps}
        about(a) == {k \in DOMAIN call.out :
                       Len(call.out[k]) = 3 /\ call.out[k][2] = a.name}
        pair == {k \in DOMAIN call.out : Len(call.out[k]) = 1}
        meeting == {j \in DOMAIN call.env : shared(call.env[j]) # {}}
    IN /\ \A j \in DOMAIN call.env :
            LET a == call.env[j]
            IN IF shared(a) = {} THEN about(a) = {}
               ELSE /\ Cardinality(about(a)) = 1
                    /\ \A k \in about(a) : call.out[k][3] = shared(a)
       /\ Cardinality(pair) = IF {"user:input", "memory:write"} \subseteq proposed
                                THEN 1 ELSE 0
       /\ Len(call.out) = Cardinality(meeting) + Cardinality(pair)

\* the sensitive pair is proposed next to active skills that share nothing
\* with it: the one warning is the pair's
C34_PairWarnedWithoutOverlap ==
  /\ call.fn = "analyze_composition" /\ call.returned
  /\ call.arg = <<"user:input", "memory:write">>
  /\ call.env = <<[name |-> "web", caps |-> <<"network:read">>]>>
  /\ Len(call.out) = 1 /\ Len(call.out[1]) = 1

\* C35: no record file ever holds a key that starts with '_': what a
\* transition, a rejection, approve or remove writes is the proposal
\* without its _context, while the proposal the pass works on keeps the
\* generated code's path and the analysis result from the step that set
\* them on.
C35_ContextNeverPersisted ==
  [][/\ \A p \in Proposals : "_context" \notin DOMAIN records'[p]
     /\ ev'.op = "transition" =>
          LET held == cur'.proposal
              slug == held["proposal"].slug
          IN /\ records'[ev'.path] =
                  [k \in DOMAIN held \ {"_context"} |-> held[k]]
             /\ (ev'.target = "implementation" /\ ev'.err = NoError)
                  => "_context" \in DOMAIN held /\ held["_context"].code_path = slug
             /\ (ev'.target = "agent-review" /\ ev'.err = NoError)
                  => "_context" \in DOMAIN held /\ held["_context"].analysis.present
             /\ "_context" \in DOMAIN cur.proposal
                  => /\ "_context" \in DOMAIN held
                     /\ held["_context"].code_path = cur.proposal["_context"].code_path]_vars

\* the pass holds a proposal with the code path and a clean analysis, and
\* the record it has just written has neither
C35_ContextHeldNotWritten ==
  /\ ev.op = "transition" /\ ev.target = "agent-review" /\ ev.err = NoError
  /\ cur.proposal["_context"].code_path # <<>>
  /\ cur.proposal["_context"].analysis.present
  /\ records[ev.path]["status"] = cur.proposal["status"]
  /\ DOMAIN records[ev.path] = DOMAIN cur.proposal \ {"_context"}

C37_InstallOnlyAfterCleanAnalysis ==
  [][ev'.op = "transition" =>
       LET slug == cur.proposal["proposal"].slug
           context == IF "_context" \in DOMAIN cur.proposal
                        THEN cur.proposal["_context"] ELSE EmptyContext
           found == IF "_context" \in DOMAIN cur'.proposal
                      THEN cur'.proposal["_context"].analysis ELSE NoAnalysis
       IN /\ ev'.target = "accepted"
               => /\ context.analysis.present /\ context.analysis.clean
                  /\ context.analysis.issues = <<>>
                  /\ context.code_path = slug
                  /\ impl[slug].exists /\ NothingForbidden(impl[slug].content)
          /\ (ev'.target = "agent-review" /\ found.present /\ found.issues # <<>>)
               => /\ records'[ev'.path]["status"] = "rejected"
                  /\ cur'.proposal["status"] = "rejected"
                  /\ manifest' = manifest /\ dirs' = dirs
          /\ (manifest' # manifest \/ dirs' # dirs) => ev'.target = "accepted"]_vars

\* a pass has installed a skill whose analysis it holds
C37_InstalledAfterAnalysis ==
  /\ ev.op = "transition" /\ ev.target = "accepted" /\ ev.err = NoError
  /\ cur.proposal["_context"].analysis.present
  /\ HasModule(manifest, ModulePath(_slug_to_module_name(cur.proposal["proposal"].slug)))
  /\ dirs[_slug_to_module_name(cur.proposal["proposal"].slug)].exists

\* C38: if the manifest has an entry for a module exactly when the module's
\* package directory exists, for every module, then the same is true after
\* an install attempt of a pass or of approve, whether it installed, was
\* refused before it changed anything, or failed in the package writes and
\* was rolled back, and after a remove_skill that succeeded.
C38_ManifestMatchesPackages ==
  [][LET Listed(m, mod) == \E i \in DOMAIN m.skills : m.skills[i].module = ModulePath(mod)
         Matched(m, d) == \A mod \in Modules : Listed(m, mod) <=> d[mod].exists
         install == \/ ev'.op = "transition" /\ ev'.target = "accepted"
                    \/ ev'.op = "approve"
         removed == ev'.op = "remove" /\ ev'.err = NoError
     IN (Matched(manifest, dirs) /\ (install \/ removed))
          => /\ Matched(manifest', dirs')
             /\ removed => ~Listed(manifest', _slug_to_module_name(
                                      records[ev'.path]["proposal"].slug))]_vars

\* an install of a pass failed in its package writes and was rolled back:
\* the module has neither an entry nor a package
C38_RolledBackInstall ==
  /\ ev.op = "transition" /\ ev.target = "accepted" /\ ev.fsFail = "write_text"
  /\ ev.err.kind = "OSError"
  /\ \A mod \in Modules :
       dirs[mod].exists <=> \E i \in DOMAIN manifest.skills :
                               manifest.skills[i].module = ModulePath(mod)
  /\ ~dirs[_slug_to_module_name(records[ev.path]["proposal"].slug)].exists

\* C39: a record that a pass loads in status implementation comes without
\* _context; the agent-review transition, the first the pass attempts on it,
\* raises 'No implementation code path found' and rejects the record with
\* that reason and type RuntimeError, whether or not the generated file is
\* still there; no analysis result is recorded, and the manifest, the
\* packages and the implementation files stay as they were.
C39_ReloadedImplementationRejected ==
  [][(/\ ev'.op \in {"transition", "fail"} /\ ev'.target = "agent-review"
      /\ cur.tested = 0)
     => /\ records[ev'.path]["status"] = "implementation"
        /\ "_context" \notin DOMAIN cur.proposal
        /\ manifest' = manifest /\ dirs' = dirs /\ impl' = impl
        /\ ev'.op = "transition"
             => /\ ev'.err = Err("RuntimeError", <<"No implementation code path found">>)
                /\ "_context" \notin DOMAIN cur'.proposal
                /\ LET after == records'[ev'.path]
                   IN /\ after["status"] = "rejected"
                      /\ after["rejection_reason"] =
                           <<"Action failed: ", "No implementation code path found">>
                      /\ after["rejection_reason_type"] = "RuntimeError"
                      /\ after["history"] =
                           Append(records[ev'.path]["history"],
                                  [status |-> "rejected", actor |-> "admin-service"])]_vars

\* a record saved at implementation by an earlier pass was loaded again and
\* rejected for its missing code path, its generated file being in place
\* and clean
C39_RejectedWithFileInPlace ==
  /\ ev.op = "transition" /\ ev.target = "agent-review"
  /\ ev.err = Err("RuntimeError", <<"No implementation code path found">>)
  /\ records[ev.path]["status"] = "rejected"
  /\ impl[records[ev.path]["proposal"].slug] = File(GoodCode)

====
